---- MODULE Spec2Model ----
(***************************************************************************)
(* A model of the eventstream library (src/eventstream.js, lines 1-307).   *)
(*                                                                         *)
(* The library is written with closures.  The model keeps every closure as *)
(* a tuple whose first element names the function expression that created *)
(* it and whose other elements are the variables it captured; Call applies *)
(* such a closure to an argument list exactly as the function body does.   *)
(* Closure variables that the code mutates (take's count, a subscription's *)
(* canUnsubscribe and unsubscribe) live in heap cells and subscription     *)
(* frames, so that sharing between subscriptions is what the code makes it.*)
(* A call either returns (field ret) or throws (field exc).                *)
(***************************************************************************)
EXTENDS Integers, Sequences, FiniteSets, TLC

\* Bounds of the exploration.
MaxTicks == 3
MaxLen == 2
MaxStopCalls == 2
MaxSubs == 2

VARIABLES
    stream,   \* the stream value built so far: [subscriptor, scheduler]
    chain,    \* history: the combinators applied to build it, in order
    heap,     \* cells of mutable closure variables (take's count, delay's timer, ...)
    subs,     \* one frame per subscribe call: its arguments and local variables
    insts,    \* one record per start of a producer: handler and whether it still runs
    timers,   \* one record per setTimeout call: callback and whether it is pending
    log       \* history: every observable call, in order

vars == <<stream, chain, heap, subs, insts, timers, log>>

----------------------------------------------------------------------------
\* JavaScript values.  Numbers are the naturals; the other values that can
\* travel through a pipeline are given codes below zero.
undefined == -1
false == -2
true == -3
EXHAUST_SIGNAL == -4
NaN == -5
\* Thrown values.
ErrorObject == -11
TypeErrorObject == -12
ConsumerErrorObject == -13

IsNumber(x) == x >= 0
ToNumber(x) == IF IsNumber(x) THEN x ELSE IF x = false THEN 0 ELSE IF x = true THEN 1 ELSE NaN
Truthy(x) == ~(x \in {undefined, false, NaN, 0})
Bool(b) == IF b THEN true ELSE false
\* a + b and Math.abs(a - b) on these values (a string result counts as NaN).
Plus(a, b) == IF ToNumber(a) = NaN \/ ToNumber(b) = NaN THEN NaN ELSE ToNumber(a) + ToNumber(b)
AbsDiff(a, b) ==
    IF ToNumber(a) = NaN \/ ToNumber(b) = NaN THEN NaN
    ELSE IF ToNumber(a) >= ToNumber(b) THEN ToNumber(a) - ToNumber(b)
    ELSE ToNumber(b) - ToNumber(a)

\* A slot that holds no function.
noFunction == <<"undefined">>
IsFunction(f) == f[1] # "undefined"

\* What the environment chooses from: the values an event source emits, the
\* counts given to take, the functions given to map.
Values == {1, 2}
TakeCounts == {0 - 1, 0, 1, 2}
MapFns == {"inc", "evenOrThrow", "fail"}
\* The functions given to filter, scan and diff.
FilterFns == {"isEven", "evenOrThrow"}
ScanFns == {"sum", "sumIfEven"}
DiffFns == {"absDiff", "absDiffIfEven"}
\* The second streams given to the combinators that join two streams, the
\* stream-valued functions given to flatMap, and the timeout given to delay.
Others == {"mapped"}
StreamFns == {"spawn", "spawnOnce", "spawnMapped"}
Timeout == 20
\* The seed given to scan and the start value given to diff.
Seed == 0

----------------------------------------------------------------------------
\* The machine: the mutable program state threaded through a call.
Machine == [heap |-> heap, subs |-> subs, insts |-> insts, timers |-> timers,
            log |-> log, ret |-> undefined, exc |-> <<>>]
Emit(m, e) == [m EXCEPT !.log = Append(@, e)]
Return(m, v) == [m EXCEPT !.ret = v]
Throw(m, e) == [m EXCEPT !.exc = <<e>>]
Threw(m) == m.exc # <<>>
Caught(m) == [m EXCEPT !.exc = <<>>]
Arg(args, i) == IF i <= Len(args) THEN args[i] ELSE undefined

RECURSIVE Call(_, _, _)
RECURSIVE subscribe(_, _, _, _, _)

\* function partial(fn, argument): the closure it returns.
partial(fn, argument) == <<"partial", fn, argument>>

\* The function partial returns: fn(argument, a, b, c).
partial_call(h, args, m) == Call(h[2], <<h[3], Arg(args, 1), Arg(args, 2), Arg(args, 3)>>, m)

\* function identity(x).
identity == <<"identity">>

identity_call(args, m) == Return(m, Arg(args, 1))

\* The functions the caller hands to the combinators.
\*   inc:         x => x + 1
\*   evenOrThrow: k => { if (k % 2 === 0) return k; else throw new Error(); }
\*   fail:        () => { throw new Error(); }
\*   isEven:      x => x % 2 === 0
\*   sum:         (a, b) => a + b
\*   absDiff:     (a, b) => Math.abs(a - b)
\*   sumIfEven:     (a, b) => { if (b % 2 === 0) return a + b; else throw new Error(); }
\*   absDiffIfEven: (a, b) => { if (b % 2 === 0) return Math.abs(a - b); else throw new Error(); }
UserThrows(f, x, y) ==
    CASE f = "evenOrThrow" -> ~(ToNumber(x) # NaN /\ ToNumber(x) % 2 = 0)
      [] f = "fail" -> TRUE
      [] f \in {"sumIfEven", "absDiffIfEven"} -> ~(ToNumber(y) # NaN /\ ToNumber(y) % 2 = 0)
      [] OTHER -> FALSE

UserResult(f, x, y) ==
    CASE f = "inc" -> Plus(x, 1)
      [] f = "evenOrThrow" -> x
      [] f = "isEven" -> Bool(ToNumber(x) # NaN /\ ToNumber(x) % 2 = 0)
      [] f \in {"sum", "sumIfEven"} -> Plus(x, y)
      [] f \in {"absDiff", "absDiffIfEven"} -> AbsDiff(x, y)
      [] OTHER -> undefined

\* Calling one; h = <<"user", its name, its id>>.  The call is recorded in
\* the history with its first two arguments.
user_call(h, args, m) ==
    LET x == Arg(args, 1)
        y == Arg(args, 2)
        m1 == Emit(m, <<"fn", h[3], x, y>>)
    IN  IF UserThrows(h[2], x, y) THEN Throw(m1, ErrorObject)
        ELSE Return(m1, UserResult(h[2], x, y))

\* Mutant of safeCall: no try/catch around done(fn()).
safeCall_noCatch(done, fail, fn, m) ==
    LET r == Call(fn, <<>>, m)
    IN  IF Threw(r) THEN r ELSE Call(done, <<r.ret>>, r)

\* Mutant of safeCall: only fn() is inside the try, and done is called with
\* whatever was computed after the catch.
safeCall_doneAfterCatch(done, fail, fn, m) ==
    LET r == Call(fn, <<>>, m)
        f == Call(fail, <<r.exc[1]>>, Caught(r))
    IN  IF Threw(r)
        THEN IF Threw(f) THEN f ELSE Call(done, <<undefined>>, f)
        ELSE Call(done, <<r.ret>>, r)

\* function safeCall(done, fail, fn).
safeCall(done, fail, fn, m) ==
    LET r == Call(fn, <<>>, m)
        d == Call(done, <<r.ret>>, r)
    IN  IF Threw(r) THEN Call(fail, <<r.exc[1]>>, Caught(r))
        ELSE IF Threw(d) THEN Call(fail, <<d.exc[1]>>, Caught(d))
        ELSE d

\* map: the transform function(next, nextError, value); h = <<"map", fn>>.
map_transform(h, args, m) ==
    safeCall(args[1], args[2], partial(h[2], Arg(args, 3)), m)

\* Mutant of take: --count > 0 in place of --count >= 0.
take_transform_strictTest(h, args, m) ==
    LET next == args[1]
        value == Arg(args, 3)
        m1 == [Emit(m, <<"take", h[2], value>>) EXCEPT !.heap[h[2]] = @ - 1]
        m2 == Call(next, <<value>>, m1)
    IN  IF m1.heap[h[2]] > 0
        THEN IF Threw(m2) THEN m2
             ELSE IF m2.heap[h[2]] = 0 THEN Call(next, <<EXHAUST_SIGNAL>>, m2)
             ELSE m2
        ELSE m1

\* take: the transform function(next, nextError, value); h = <<"take", cell of count>>.
\* The first Emit records the arrival of value at take in the history.
take_transform(h, args, m) ==
    LET next == args[1]
        value == Arg(args, 3)
        m1 == [Emit(m, <<"take", h[2], value>>) EXCEPT !.heap[h[2]] = @ - 1]
        m2 == Call(next, <<value>>, m1)
    IN  IF m1.heap[h[2]] >= 0
        THEN IF Threw(m2) THEN m2
             ELSE IF m2.heap[h[2]] = 0 THEN Call(next, <<EXHAUST_SIGNAL>>, m2)
             ELSE m2
        ELSE m1

\* composeScheduler(fn) of a stream with the given scheduler: the closure it returns.
composeScheduler(scheduler, fn) == <<"composed", scheduler, fn>>

\* The function composeScheduler returns: function(next, nextError).
composed_call(h, args, m) ==
    Call(h[2], <<partial(partial(h[3], args[1]), args[2]), args[2]>>, m)

\* function eventstream(subscriptor, scheduler).
eventstream(m, subscriptor, scheduler) ==
    Return(m, [subscriptor |-> subscriptor,
               scheduler |-> IF IsFunction(scheduler) THEN scheduler ELSE identity])

\* Mutant of transformScheduler: an eager one, which subscribes to the source
\* while the new stream is constructed.
transformScheduler_eager(m, self, transform) ==
    eventstream(Call(self.subscriptor, <<identity>>, m), self.subscriptor,
                composeScheduler(self.scheduler, transform))

\* transformScheduler(transform) of the stream self.
transformScheduler(m, self, transform) ==
    eventstream(m, self.subscriptor, composeScheduler(self.scheduler, transform))

\* map(fn) of the stream self.
map(m, self, fn) == transformScheduler(m, self, <<"map", fn>>)

\* take(count) of the stream self: count is the variable the transform decrements.
take(m, self, count) ==
    transformScheduler([m EXCEPT !.heap = Append(@, count)], self,
                       <<"take", Len(m.heap) + 1>>)

\* The function partial itself, as a value: partial(fn, argument).
partialFn_call(args, m) == Return(m, partial(args[1], args[2]))

\* var constant = partial(partial, identity).
constant == partial(<<"partialFn">>, identity)

\* filter: the transform function(next, nextError, value); h = <<"filter", predicate>>.
filter_transform(h, args, m) ==
    safeCall(<<"filterDone", args[1], Arg(args, 3)>>, args[2],
             partial(h[2], Arg(args, 3)), m)

\* Mutant of filter's function(isAccepted): the value is forwarded whatever
\* the predicate returned.
filterDone_call_always(h, args, m) == Call(h[2], <<h[3]>>, m)

\* filter: function(isAccepted); h = <<"filterDone", next, value>>.
filterDone_call(h, args, m) ==
    IF Truthy(Arg(args, 1)) THEN Call(h[2], <<h[3]>>, m) ELSE m

\* Mutant of scan's transform: the accumulator handed to fn is the seed.
scan_transform_fromSeed(h, args, m) ==
    safeCall(<<"scanDone", h[2], args[1]>>, args[2],
             partial(partial(h[3], Seed), Arg(args, 3)), m)

\* scan: the transform function(next, nextError, value); h = <<"scan", cell of s, fn>>.
scan_transform(h, args, m) ==
    safeCall(<<"scanDone", h[2], args[1]>>, args[2],
             partial(partial(h[3], m.heap[h[2]]), Arg(args, 3)), m)

\* Mutant of scan's function(result): the result is forwarded and s is not set.
scanDone_call_noUpdate(h, args, m) == Call(h[3], <<Arg(args, 1)>>, m)

\* scan: function(result); h = <<"scanDone", cell of s, next>>.
scanDone_call(h, args, m) ==
    Call(h[3], <<Arg(args, 1)>>, [m EXCEPT !.heap[h[2]] = Arg(args, 1)])

\* diff: the transform function(next, nextError, value); h = <<"diff", cell of s, fn>>.
diff_transform(h, args, m) ==
    safeCall(<<"diffDone", h[2], args[1], Arg(args, 3)>>, args[2],
             partial(partial(h[3], m.heap[h[2]]), Arg(args, 3)), m)

\* Mutant of diff's function(result): s is set to the result, as scan does.
diffDone_call_storeResult(h, args, m) ==
    Call(h[3], <<Arg(args, 1)>>, [m EXCEPT !.heap[h[2]] = Arg(args, 1)])

\* diff: function(result); h = <<"diffDone", cell of s, next, value>>.
diffDone_call(h, args, m) ==
    Call(h[3], <<Arg(args, 1)>>, [m EXCEPT !.heap[h[2]] = h[4]])

\* Mutant of delay's transform: timer keeps the first timer that was set.
delay_transform_keepFirst(h, args, m) ==
    LET id == Len(m.timers) + 1
        m1 == [m EXCEPT !.timers = Append(@, [callback |-> partial(args[1], Arg(args, 3)),
                                              pending |-> TRUE]),
                        !.heap[h[2]] = IF @ = undefined THEN id ELSE @]
    IN  Emit(m1, <<"setTimeout", id, Arg(args, 3), h[2]>>)

\* delay: the transform function(next, nextError, value); h = <<"delay", cell of timer>>.
\* timer = setTimeout(partial(next, value), timeout)
delay_transform(h, args, m) ==
    LET id == Len(m.timers) + 1
        m1 == [m EXCEPT !.timers = Append(@, [callback |-> partial(args[1], Arg(args, 3)),
                                              pending |-> TRUE]),
                        !.heap[h[2]] = id]
    IN  Emit(m1, <<"setTimeout", id, Arg(args, 3), h[2]>>)

\* delay: function() { clearTimeout(timer); }; h = <<"clearTimer", cell of timer>>.
clearTimer_call(h, args, m) ==
    LET id == m.heap[h[2]]
    IN  IF id = undefined THEN Emit(m, <<"clearTimeout", 0, h[2]>>)
        ELSE Emit([m EXCEPT !.timers[id].pending = FALSE], <<"clearTimeout", id, h[2]>>)

\* Mutant of merge's transform: the value is forwarded twice.
merge_transform_twice(args, m) ==
    LET once == Call(args[1], <<Arg(args, 3)>>, m)
    IN  IF Threw(once) THEN once ELSE Call(args[1], <<Arg(args, 3)>>, once)

\* merge: function transform(next, nextError, value).
merge_transform(args, m) == Call(args[1], <<Arg(args, 3)>>, m)

\* Mutant of combineLatest's transform: the combinator is called on every
\* value, with undefined for a side that has produced nothing yet.
combineLatest_transform_unprimed(h, args, m) ==
    LET m1 == [m EXCEPT !.heap[h[2]][args[1]] = <<Arg(args, 4)>>]
        values == m1.heap[h[2]]
        a == IF values.a = <<>> THEN undefined ELSE values.a[1]
        b == IF values.b = <<>> THEN undefined ELSE values.b[1]
    IN  safeCall(args[2], args[3], partial(partial(h[3], a), b), m1)

\* combineLatest: function transform(property, next, nextError, value);
\* h = <<"combineLatest", cell of values, combinator>>.
combineLatest_transform(h, args, m) ==
    LET m1 == [m EXCEPT !.heap[h[2]][args[1]] = <<Arg(args, 4)>>]
        values == m1.heap[h[2]]
    IN  IF values.a # <<>> /\ values.b # <<>>
        THEN safeCall(args[2], args[3],
                      partial(partial(h[3], values.a[1]), values.b[1]), m1)
        ELSE m1

\* Mutant of sampledBy's first transform: the value is stored and forwarded.
sampledBy_store_forwarding(h, args, m) ==
    Call(args[1], <<Arg(args, 3)>>, [m EXCEPT !.heap[h[2]] = <<Arg(args, 3)>>])

\* sampledBy: function(next, nextError, value) { container.v = value; }
sampledBy_store(h, args, m) == [m EXCEPT !.heap[h[2]] = <<Arg(args, 3)>>]

\* sampledBy: function(next) { if ('v' in container) next(container.v); }
sampledBy_emit(h, args, m) ==
    IF m.heap[h[2]] # <<>> THEN Call(args[1], <<m.heap[h[2]][1]>>, m) ELSE m

\* joinSubscriptors(a, b): the closure it returns.
joinSubscriptors(a, b) == <<"joined", a, b>>

\* The function joinSubscriptors returns: function(handler).
joined_call(h, args, m) ==
    LET a == Call(h[2], <<partial(args[1], true)>>, m)
        b == Call(h[3], <<partial(args[1], false)>>, a)
    IN  IF Threw(a) THEN a
        ELSE IF Threw(b) THEN b
        ELSE Return(b, <<"joinedStop", a.ret, b.ret>>)

\* Mutant of the stop function of a join: the second side is stopped first.
joinedStop_call_secondFirst(h, args, m) ==
    LET b == Call(h[3], <<>>, m)
    IN  IF Threw(b) THEN b ELSE Call(h[2], <<>>, b)

\* The stop function of a join: unsubscribeFromA(); unsubscribeFromB();
joinedStop_call(h, args, m) ==
    LET a == Call(h[2], <<>>, m)
    IN  IF Threw(a) THEN a ELSE Call(h[3], <<>>, a)

\* combineWithEventStream: function(next, nextError), which returns the
\* dispatching handler; h = <<"combined", scheduler, otherScheduler, transformA, transformB>>.
combined_call(h, args, m) ==
    Return(m, <<"dispatch", h[2], h[3], h[4], h[5], args[1], args[2]>>)

\* Mutant of the dispatching handler: the test of the origin tag is inverted.
dispatch_call_swapped(h, args, m) ==
    LET self == Arg(args, 1)
        value == Arg(args, 2)
        next == h[6]
        nextError == h[7]
        made == IF ~Truthy(self)
                THEN Call(h[2], <<partial(partial(h[4], next), nextError), nextError>>, m)
                ELSE Call(h[3], <<partial(partial(h[5], next), nextError), nextError>>, m)
    IN  IF Threw(made) THEN made ELSE Call(made.ret, <<value>>, made)

\* combineWithEventStream: function(self, value).
dispatch_call(h, args, m) ==
    LET self == Arg(args, 1)
        value == Arg(args, 2)
        next == h[6]
        nextError == h[7]
        made == IF Truthy(self)
                THEN Call(h[2], <<partial(partial(h[4], next), nextError), nextError>>, m)
                ELSE Call(h[3], <<partial(partial(h[5], next), nextError), nextError>>, m)
    IN  IF Threw(made) THEN made ELSE Call(made.ret, <<value>>, made)

\* function invokeEach(array), from index i on; array is the cell of the array.
RECURSIVE invokeEachFrom(_, _, _, _)
invokeEachFrom(cell, i, len, m) ==
    IF i > len THEN m
    ELSE LET called == IF i <= Len(m.heap[cell])
                       THEN Call(m.heap[cell][i], <<>>, m)
                       ELSE Throw(m, TypeErrorObject)
         IN  IF Threw(called) THEN called ELSE invokeEachFrom(cell, i + 1, len, called)

invokeEach_call(args, m) == invokeEachFrom(args[1][2], 1, Len(m.heap[args[1][2]]), m)

\* The stream-valued functions the caller hands to flatMap and flatMapLatest.
\*   spawn:     () => eventstream(producer)
\*   spawnOnce: () => eventstream(producer).take(1)
\*   spawnMapped: () => eventstream(producer).map(evenOrThrow)
\* h = <<"userStream", its name, its id>>.
userStream_call(h, args, m) ==
    LET m1 == Emit(m, <<"fn", h[3], Arg(args, 1), Arg(args, 2)>>)
        e == eventstream(m1, <<"producer", 3>>, noFunction)
    IN  IF h[2] = "spawnOnce" THEN take(e, e.ret, 1)
        ELSE IF h[2] = "spawnMapped" THEN map(e, e.ret, <<"user", "evenOrThrow", 200 + h[3]>>)
        ELSE e

\* Mutant of flatMapCapped's transform: the oldest stream is stopped after the
\* new one has been subscribed to.
flatMapCapped_transform_evictAfter(h, args, m) ==
    LET cell == h[2]
        m2 == Call(h[4], <<Arg(args, 3)>>, m)
        m3 == subscribe(m2, m2.ret, args[1], noFunction, args[2])
        m4 == IF Len(m3.heap[cell]) >= h[3]
              THEN Call(Head(m3.heap[cell]), <<>>, [m3 EXCEPT !.heap[cell] = Tail(@)])
              ELSE m3
    IN  IF Threw(m2) THEN m2 ELSE IF Threw(m3) THEN m3 ELSE IF Threw(m4) THEN m4
        ELSE [m4 EXCEPT !.heap[cell] = Append(@, m3.ret)]

\* Mutant of flatMapCapped's transform: the end of a stream it subscribed to
\* is handed on as the sentinel.
flatMapCapped_transform_forwardEnd(h, args, m) ==
    LET cell == h[2]
        m1 == IF Len(m.heap[cell]) >= h[3]
              THEN Call(Head(m.heap[cell]), <<>>, [m EXCEPT !.heap[cell] = Tail(@)])
              ELSE m
        m2 == Call(h[4], <<Arg(args, 3)>>, m1)
        m3 == subscribe(m2, m2.ret, args[1], partial(args[1], EXHAUST_SIGNAL), args[2])
    IN  IF Threw(m1) THEN m1 ELSE IF Threw(m2) THEN m2 ELSE IF Threw(m3) THEN m3
        ELSE [m3 EXCEPT !.heap[cell] = Append(@, m3.ret)]

\* Mutant of flatMapCapped's transform: the errors of a stream it subscribed
\* to are dropped.
flatMapCapped_transform_swallowErrors(h, args, m) ==
    LET cell == h[2]
        m1 == IF Len(m.heap[cell]) >= h[3]
              THEN Call(Head(m.heap[cell]), <<>>, [m EXCEPT !.heap[cell] = Tail(@)])
              ELSE m
        m2 == Call(h[4], <<Arg(args, 3)>>, m1)
        m3 == subscribe(m2, m2.ret, args[1], noFunction, identity)
    IN  IF Threw(m1) THEN m1 ELSE IF Threw(m2) THEN m2 ELSE IF Threw(m3) THEN m3
        ELSE [m3 EXCEPT !.heap[cell] = Append(@, m3.ret)]

\* flatMapCapped: the transform function(next, nextError, value);
\* h = <<"flatMap", cell of substreams, limit, fn>>.
flatMapCapped_transform(h, args, m) ==
    LET cell == h[2]
        m1 == IF Len(m.heap[cell]) >= h[3]
              THEN Call(Head(m.heap[cell]), <<>>, [m EXCEPT !.heap[cell] = Tail(@)])
              ELSE m
        m2 == Call(h[4], <<Arg(args, 3)>>, m1)
        m3 == subscribe(m2, m2.ret, args[1], noFunction, args[2])
    IN  IF Threw(m1) THEN m1
        ELSE IF Threw(m2) THEN m2
        ELSE IF Threw(m3) THEN m3
        ELSE [m3 EXCEPT !.heap[cell] = Append(@, m3.ret)]

\* The producer handed to eventstream(...): starts an event source that calls
\* handler on every event, and returns the function that stops the source.
producer_call(h, args, m) ==
    LET i == Len(m.insts) + 1
        m1 == [m EXCEPT !.insts = Append(@, [handler |-> args[1], active |-> TRUE])]
    IN  Return(Emit(m1, <<"start", h[2], i>>), <<"stopFn", i>>)

\* A producer that calls its handler once, with a value, before it returns its
\* stop function; h = <<"syncProducer", producer, value>>.  When the handler
\* throws, the producer does not return.
syncProducer_call(h, args, m) ==
    LET i == Len(m.insts) + 1
        m1 == [m EXCEPT !.insts = Append(@, [handler |-> args[1], active |-> TRUE])]
        m2 == Call(args[1], <<h[3]>>,
                   Emit(Emit(m1, <<"start", h[2], i>>), <<"tick", i, h[3]>>))
    IN  IF Threw(m2) THEN m2 ELSE Return(m2, <<"stopFn", i>>)

\* Mutant of the stop function a producer returned: it stops every run of the
\* producer.
stopFn_call_all(h, args, m) ==
    Return(Emit([m EXCEPT !.insts = [i \in DOMAIN @ |-> [@[i] EXCEPT !.active = FALSE]]],
                <<"stop", h[2], 0>>), undefined)

\* The stop function a producer returned.
stopFn_call(h, args, m) ==
    Return(Emit([m EXCEPT !.insts[h[2]].active = FALSE], <<"stop", h[2], 0>>), undefined)

\* The callbacks handed to subscribe; h = <<"consumer", name, subscription>>.
consumer_call(h, args, m) ==
    Return(Emit(m, <<h[2], h[3], Arg(args, 1)>>), undefined)

\* An onNext that throws: function(value) { throw new Error(); };
\* h = <<"throwingConsumer", subscription>>.
throwingConsumer_call(h, args, m) ==
    Throw(Emit(m, <<"onNext", h[2], Arg(args, 1)>>), ConsumerErrorObject)

\* Mutant of the terminal value handler: onEnd is called before unsubscribe.
onValue_call_endFirst(h, args, m) ==
    LET k == h[2]
        value == Arg(args, 1)
        m0 == Emit(m, <<"terminal", k, value>>)
        m1 == IF IsFunction(m0.subs[k].onEnd) THEN Call(m0.subs[k].onEnd, <<>>, m0) ELSE m0
    IN  IF value = EXHAUST_SIGNAL
        THEN IF Threw(m1) THEN m1
             ELSE IF m1.subs[k].canUnsubscribe
                  THEN Call(m1.subs[k].unsubscribe, <<>>,
                            [m1 EXCEPT !.subs[k].canUnsubscribe = FALSE])
                  ELSE m1
        ELSE Call(m0.subs[k].onNext, <<value>>, m0)

\* Mutant of the terminal value handler: the sentinel tears down and is then
\* handed to onNext like any value.
onValue_call_sentinelToOnNext(h, args, m) ==
    LET k == h[2]
        value == Arg(args, 1)
        m0 == Emit(m, <<"terminal", k, value>>)
        m1 == IF value = EXHAUST_SIGNAL /\ m0.subs[k].canUnsubscribe
              THEN Call(m0.subs[k].unsubscribe, <<>>,
                        [m0 EXCEPT !.subs[k].canUnsubscribe = FALSE])
              ELSE m0
    IN  IF Threw(m1) THEN m1 ELSE Call(m1.subs[k].onNext, <<value>>, m1)

\* subscribe: the terminal value handler function(value); h = <<"onValue", k>>.
\* m0 records the arrival of value at the terminal handler in the history.
onValue_call(h, args, m) ==
    LET k == h[2]
        value == Arg(args, 1)
        m0 == Emit(m, <<"terminal", k, value>>)
        m1 == IF m0.subs[k].canUnsubscribe
              THEN Call(m0.subs[k].unsubscribe, <<>>,
                        [m0 EXCEPT !.subs[k].canUnsubscribe = FALSE])
              ELSE m0
    IN  IF value = EXHAUST_SIGNAL
        THEN IF Threw(m1) THEN m1
             ELSE IF IsFunction(m1.subs[k].onEnd) THEN Call(m1.subs[k].onEnd, <<>>, m1)
             ELSE m1
        ELSE Call(m0.subs[k].onNext, <<value>>, m0)

\* Mutant of the terminal error handler: without onError the error is dropped.
onFail_call_swallow(h, args, m) ==
    LET k == h[2]
        error == Arg(args, 1)
    IN  IF IsFunction(m.subs[k].onError)
        THEN Call(m.subs[k].onError, <<error>>, m)
        ELSE m

\* subscribe: the terminal error handler function(error); h = <<"onFail", k>>.
onFail_call(h, args, m) ==
    LET k == h[2]
        error == Arg(args, 1)
    IN  IF IsFunction(m.subs[k].onError)
        THEN Call(m.subs[k].onError, <<error>>, m)
        ELSE Throw(m, error)

\* Applying a closure to an argument list.
Call(h, args, m) ==
    CASE h[1] = "partial" -> partial_call(h, args, m)
      [] h[1] = "identity" -> identity_call(args, m)
      [] h[1] = "user" -> user_call(h, args, m)
      [] h[1] = "map" -> map_transform(h, args, m)
      [] h[1] = "take" -> take_transform(h, args, m)
      [] h[1] = "composed" -> composed_call(h, args, m)
      [] h[1] = "producer" -> producer_call(h, args, m)
      [] h[1] = "syncProducer" -> syncProducer_call(h, args, m)
      [] h[1] = "stopFn" -> stopFn_call(h, args, m)
      [] h[1] = "consumer" -> consumer_call(h, args, m)
      [] h[1] = "throwingConsumer" -> throwingConsumer_call(h, args, m)
      [] h[1] = "onValue" -> onValue_call(h, args, m)
      [] h[1] = "onFail" -> onFail_call(h, args, m)
      [] h[1] = "partialFn" -> partialFn_call(args, m)
      [] h[1] = "filter" -> filter_transform(h, args, m)
      [] h[1] = "filterDone" -> filterDone_call(h, args, m)
      [] h[1] = "scan" -> scan_transform(h, args, m)
      [] h[1] = "scanDone" -> scanDone_call(h, args, m)
      [] h[1] = "diff" -> diff_transform(h, args, m)
      [] h[1] = "diffDone" -> diffDone_call(h, args, m)
      [] h[1] = "delay" -> delay_transform(h, args, m)
      [] h[1] = "clearTimer" -> clearTimer_call(h, args, m)
      [] h[1] = "merge" -> merge_transform(args, m)
      [] h[1] = "combineLatest" -> combineLatest_transform(h, args, m)
      [] h[1] = "sampledByStore" -> sampledBy_store(h, args, m)
      [] h[1] = "sampledByEmit" -> sampledBy_emit(h, args, m)
      [] h[1] = "joined" -> joined_call(h, args, m)
      [] h[1] = "joinedStop" -> joinedStop_call(h, args, m)
      [] h[1] = "combined" -> combined_call(h, args, m)
      [] h[1] = "dispatch" -> dispatch_call(h, args, m)
      [] h[1] = "invokeEach" -> invokeEach_call(args, m)
      [] h[1] = "userStream" -> userStream_call(h, args, m)
      [] h[1] = "flatMap" -> flatMapCapped_transform(h, args, m)
      [] h[1] = "undefined" -> Throw(m, TypeErrorObject)

----------------------------------------------------------------------------
\* filter(predicate) of the stream self.
filter(m, self, predicate) == transformScheduler(m, self, <<"filter", predicate>>)

\* scan(seed, fn) of the stream self: var s = seed.
scan(m, self, seed, fn) ==
    transformScheduler([m EXCEPT !.heap = Append(@, seed)], self,
                       <<"scan", Len(m.heap) + 1, fn>>)

\* diff(start, fn) of the stream self: var s = start.
diff(m, self, start, fn) ==
    transformScheduler([m EXCEPT !.heap = Append(@, start)], self,
                       <<"diff", Len(m.heap) + 1, fn>>)

\* delay(timeout) of the stream self: var timer.
delay(m, self, timeout) ==
    LET cell == Len(m.heap) + 1
        c == Call(constant, <<(<<"clearTimer", cell>>)>>,
                  [m EXCEPT !.heap = Append(@, undefined)])
    IN  eventstream(c, joinSubscriptors(c.ret, self.subscriptor),
                    composeScheduler(self.scheduler, <<"delay", cell, timeout>>))

\* combineWithEventStream(other, transformA, transformB) of the stream self.
combineWithEventStream(m, self, other, transformA, transformB) ==
    eventstream(m, joinSubscriptors(self.subscriptor, other.subscriptor),
                <<"combined", self.scheduler, other.scheduler, transformA, transformB>>)

\* merge(other) of the stream self.
merge(m, self, other) ==
    combineWithEventStream(m, self, other, <<"merge">>, <<"merge">>)

\* combineLatest(other, combinator) of the stream self: var values = {}.
combineLatest(m, self, other, combinator) ==
    LET cell == Len(m.heap) + 1
        transform == <<"combineLatest", cell, combinator>>
    IN  combineWithEventStream([m EXCEPT !.heap = Append(@, [a |-> <<>>, b |-> <<>>])],
                               self, other, partial(transform, "a"), partial(transform, "b"))

\* sampledBy(other) of the stream self: var container = {}.
sampledBy(m, self, other) ==
    LET cell == Len(m.heap) + 1
    IN  combineWithEventStream([m EXCEPT !.heap = Append(@, <<>>)], self, other,
                               <<"sampledByStore", cell>>, <<"sampledByEmit", cell>>)

\* Mutant of takeUntil: other is merged as it is, not mapped to the sentinel.
takeUntil_unmapped(m, self, other) == merge(m, self, other)

\* A function given where a stream is expected, as the object whose
\* properties the code looks up; a value eventstream returned has the methods.
FunctionObject(f) == [call |-> f]
IsStreamValue(x) == "subscriptor" \in DOMAIN x

\* takeUntil(other) of the stream self.  other.map is undefined when other is
\* not a stream value, and calling it throws a TypeError.
takeUntil(m, self, other) ==
    LET c == Call(constant, <<EXHAUST_SIGNAL>>, m)
        mapped == map(c, other, c.ret)
    IN  IF ~IsStreamValue(other) THEN Throw(c, TypeErrorObject)
        ELSE merge(mapped, self, mapped.ret)

\* flatMapCapped(limit, fn) of the stream self: var substreams = [].
flatMapCapped(m, self, limit, fn) ==
    LET cell == Len(m.heap) + 1
        c == Call(constant, <<partial(<<"invokeEach">>, <<"ref", cell>>)>>,
                  [m EXCEPT !.heap = Append(@, <<>>)])
    IN  eventstream(c, joinSubscriptors(c.ret, self.subscriptor),
                    composeScheduler(self.scheduler, <<"flatMap", cell, limit, fn>>))

\* flatMap: partial(flatMapCapped, Infinity); flatMapLatest: partial(flatMapCapped, 1).
Infinity == 1000000
flatMap(m, self, fn) == flatMapCapped(m, self, Infinity, fn)
flatMapLatest(m, self, fn) == flatMapCapped(m, self, 1, fn)

\* subscribe(onNext, onEnd, onError) of the stream self.
subscribe(m, self, onNext, onEnd, onError) ==
    LET k == Len(m.subs) + 1
        m1 == [m EXCEPT !.subs = Append(@, [onNext |-> onNext, onEnd |-> onEnd,
                                            onError |-> onError,
                                            canUnsubscribe |-> TRUE,
                                            unsubscribe |-> noFunction])]
        m2 == Call(self.scheduler, <<(<<"onValue", k>>), (<<"onFail", k>>)>>, m1)
        m3 == Call(self.subscriptor, <<m2.ret>>, m2)
    IN  IF Threw(m2) THEN m2
        ELSE IF Threw(m3) THEN m3
        ELSE [m3 EXCEPT !.subs[k].unsubscribe = m3.ret]

----------------------------------------------------------------------------
\* History helpers.
Count(kind) == Cardinality({i \in DOMAIN log : log[i][1] = kind})
Commit(m) == /\ heap' = m.heap
             /\ subs' = m.subs
             /\ insts' = m.insts
             /\ timers' = m.timers
             /\ log' = m.log

\* eventstream(producer): the base stream, constructed and not subscribed.
Init ==
    /\ stream = eventstream(
                    [heap |-> <<>>, subs |-> <<>>, insts |-> <<>>, timers |-> <<>>,
                     log |-> <<>>, ret |-> undefined, exc |-> <<>>],
                    <<"producer", 1>>, noFunction).ret
    /\ chain = <<>>
    /\ heap = <<>>
    /\ subs = <<>>
    /\ insts = <<>>
    /\ timers = <<>>
    /\ log = <<>>

\* stream = stream.map(fn)
Map ==
    \E f \in MapFns :
        /\ subs = <<>>
        /\ Len(chain) < MaxLen
        /\ LET m == map(Machine, stream, <<"user", f, Len(chain) + 1>>)
           IN  Commit(m) /\ stream' = m.ret
        /\ chain' = Append(chain, [op |-> "map", fn |-> f, n |-> 0, cell |-> 0, other |-> ""])

\* stream = stream.take(n)
Take ==
    \E n \in TakeCounts :
        /\ subs = <<>>
        /\ Len(chain) < MaxLen
        /\ LET m == take(Machine, stream, n)
           IN  Commit(m) /\ stream' = m.ret
        /\ chain' = Append(chain, [op |-> "take", fn |-> "", n |-> n, cell |-> Len(heap) + 1, other |-> ""])

\* stop = stream.subscribe(onNext, onEnd, onError), onEnd and onError optional
Subscribe ==
    \E withEnd \in BOOLEAN, withError \in BOOLEAN :
        /\ subs = <<>>
        /\ LET k == Len(subs) + 1
               m == subscribe(Emit(Machine, <<"subscribe", k, 0>>), stream,
                              <<"consumer", "onNext", k>>,
                              IF withEnd THEN <<"consumer", "onEnd", k>> ELSE noFunction,
                              IF withError THEN <<"consumer", "onError", k>> ELSE noFunction)
           IN  Commit(IF Threw(m) THEN Emit(Caught(m), <<"uncaught", 0, m.exc[1]>>) ELSE m)
        /\ UNCHANGED <<stream, chain>>

\* A running event source calls its handler with a value.
Tick ==
    \E i \in DOMAIN insts, v \in Values :
        /\ insts[i].active
        /\ Count("tick") < MaxTicks
        /\ LET m == Call(insts[i].handler, <<v>>, Emit(Machine, <<"tick", i, v>>))
           IN  Commit(IF Threw(m) THEN Emit(Caught(m), <<"uncaught", i, m.exc[1]>>) ELSE m)
        /\ UNCHANGED <<stream, chain>>

\* The subscriber calls the function subscribe returned to it (the stop
\* functions of the streams flatMap subscribes to are held by flatMap alone).
Unsubscribe ==
    \E k \in DOMAIN subs :
        /\ \E i \in DOMAIN log : log[i] = <<"subscribe", k, 0>>
        /\ IsFunction(subs[k].unsubscribe)
        /\ Count("unsubscribe") < MaxStopCalls
        /\ LET m == Call(subs[k].unsubscribe, <<>>, Emit(Machine, <<"unsubscribe", k, 0>>))
           IN  Commit(IF Threw(m) THEN Emit(Caught(m), <<"uncaught", 0, m.exc[1]>>) ELSE m)
        /\ UNCHANGED <<stream, chain>>

Next == Map \/ Take \/ Subscribe \/ Tick \/ Unsubscribe

Spec == Init /\ [][Next]_vars

----------------------------------------------------------------------------
\* The remaining combinators.

\* The second stream of a join: eventstream(producerB), or that stream mapped.
OtherStream(m, o) ==
    LET e == eventstream(m, <<"producer", 2>>, noFunction)
    IN  IF o = "mapped" THEN map(e, e.ret, <<"user", "inc", 100 + Len(chain) + 1>>) ELSE e

Stage(op, fn, cell, other) == [op |-> op, fn |-> fn, n |-> 0, cell |-> cell, other |-> other]

\* stream = stream.filter(predicate)
Filter ==
    \E f \in FilterFns :
        /\ subs = <<>>
        /\ Len(chain) < MaxLen
        /\ LET m == filter(Machine, stream, <<"user", f, Len(chain) + 1>>)
           IN  Commit(m) /\ stream' = m.ret
        /\ chain' = Append(chain, Stage("filter", f, 0, ""))

\* stream = stream.scan(seed, fn)
Scan ==
    \E f \in ScanFns :
        /\ subs = <<>>
        /\ Len(chain) < MaxLen
        /\ LET m == scan(Machine, stream, Seed, <<"user", f, Len(chain) + 1>>)
           IN  Commit(m) /\ stream' = m.ret
        /\ chain' = Append(chain, Stage("scan", f, Len(heap) + 1, ""))

\* stream = stream.diff(start, fn)
Diff ==
    \E f \in DiffFns :
        /\ subs = <<>>
        /\ Len(chain) < MaxLen
        /\ LET m == diff(Machine, stream, Seed, <<"user", f, Len(chain) + 1>>)
           IN  Commit(m) /\ stream' = m.ret
        /\ chain' = Append(chain, Stage("diff", f, Len(heap) + 1, ""))

\* stream = stream.delay(timeout)
Delay ==
    /\ subs = <<>>
    /\ Len(chain) < MaxLen
    /\ LET m == delay(Machine, stream, Timeout)
       IN  Commit(m) /\ stream' = m.ret
    /\ chain' = Append(chain, Stage("delay", "", Len(heap) + 1, ""))

\* stream = stream.merge(other)
Merge ==
    \E o \in Others :
        /\ subs = <<>>
        /\ Len(chain) < MaxLen
        /\ LET b == OtherStream(Machine, o)
               m == merge(b, stream, b.ret)
           IN  Commit(m) /\ stream' = m.ret
        /\ chain' = Append(chain, Stage("merge", "", 0, o))

\* stream = stream.combineLatest(other, (a, b) => a + b)
CombineLatest ==
    \E o \in Others :
        /\ subs = <<>>
        /\ Len(chain) < MaxLen
        /\ LET b == OtherStream(Machine, o)
               m == combineLatest(b, stream, b.ret, <<"user", "sum", Len(chain) + 1>>)
           IN  Commit(m) /\ stream' = m.ret
        /\ chain' = Append(chain, Stage("combineLatest", "sum", Len(heap) + 1, o))

\* stream = stream.sampledBy(other)
SampledBy ==
    \E o \in Others :
        /\ subs = <<>>
        /\ Len(chain) < MaxLen
        /\ LET b == OtherStream(Machine, o)
               m == sampledBy(b, stream, b.ret)
           IN  Commit(m) /\ stream' = m.ret
        /\ chain' = Append(chain, Stage("sampledBy", "", Len(heap) + 1, o))

\* stream = stream.takeUntil(other)
TakeUntil ==
    \E o \in Others :
        /\ subs = <<>>
        /\ Len(chain) < MaxLen
        /\ LET b == OtherStream(Machine, o)
               m == takeUntil(b, stream, b.ret)
           IN  Commit(m) /\ stream' = m.ret
        /\ chain' = Append(chain, Stage("takeUntil", "", 0, o))

\* stream = stream.flatMap(fn)
FlatMap ==
    \E f \in StreamFns :
        /\ subs = <<>>
        /\ Len(chain) < MaxLen
        /\ LET m == flatMap(Machine, stream, <<"userStream", f, Len(chain) + 1>>)
           IN  Commit(m) /\ stream' = m.ret
        /\ chain' = Append(chain, Stage("flatMap", f, Len(heap) + 1, ""))

\* stream = stream.flatMapLatest(fn)
FlatMapLatest ==
    \E f \in StreamFns :
        /\ subs = <<>>
        /\ Len(chain) < MaxLen
        /\ LET m == flatMapLatest(Machine, stream, <<"userStream", f, Len(chain) + 1>>)
           IN  Commit(m) /\ stream' = m.ret
        /\ chain' = Append(chain, Stage("flatMapLatest", f, Len(heap) + 1, ""))

\* A pending timer fires; equal timeouts fire in the order they were set.
Fire ==
    \E id \in DOMAIN timers :
        /\ timers[id].pending
        /\ \A j \in DOMAIN timers : timers[j].pending => id <= j
        /\ LET m == Call(timers[id].callback, <<>>,
                         Emit([Machine EXCEPT !.timers[id].pending = FALSE],
                              <<"timer", id, 0>>))
           IN  Commit(IF Threw(m) THEN Emit(Caught(m), <<"uncaught", 0, m.exc[1]>>) ELSE m)
        /\ UNCHANGED <<stream, chain>>

NextAll ==
    \/ Map \/ Take \/ Filter \/ Scan \/ Diff \/ Delay
    \/ Merge \/ CombineLatest \/ SampledBy \/ TakeUntil
    \/ FlatMap \/ FlatMapLatest
    \/ Subscribe \/ Tick \/ Unsubscribe \/ Fire

SpecAll == Init /\ [][NextAll]_vars

\* Chains of maps and delays.
NextDelay == Map \/ Delay \/ Subscribe \/ Tick \/ Fire \/ Unsubscribe

SpecDelay == Init /\ [][NextDelay]_vars

\* Chains of maps, flatMaps and takes.
NextFlat == Map \/ Take \/ FlatMap \/ FlatMapLatest \/ Subscribe \/ Tick \/ Unsubscribe

SpecFlat == Init /\ [][NextFlat]_vars

\* A further stream.subscribe(onNext, onEnd, onError) on the stream that is
\* already subscribed to, with handlers of its own, given where the first
\* subscription gave them.
SubscribeAgain ==
    /\ subs # <<>>
    /\ Count("subscribe") < MaxSubs
    /\ LET k == Len(subs) + 1
           m == subscribe(Emit(Machine, <<"subscribe", k, 0>>), stream,
                          <<"consumer", "onNext", k>>,
                          IF IsFunction(subs[1].onEnd)
                          THEN <<"consumer", "onEnd", k>> ELSE noFunction,
                          IF IsFunction(subs[1].onError)
                          THEN <<"consumer", "onError", k>> ELSE noFunction)
       IN  Commit(IF Threw(m) THEN Emit(Caught(m), <<"uncaught", 0, m.exc[1]>>) ELSE m)
    /\ UNCHANGED <<stream, chain>>

\* Chains of maps with several subscriptions.
NextMulti == Map \/ Subscribe \/ SubscribeAgain \/ Tick \/ Unsubscribe

SpecMulti == Init /\ [][NextMulti]_vars

\* Chains of scans with several subscriptions.
NextSharedScan == Scan \/ Subscribe \/ SubscribeAgain \/ Tick \/ Unsubscribe

SpecSharedScan == Init /\ [][NextSharedScan]_vars

\* Chains of takes with several subscriptions.
NextSharedTake == Take \/ Subscribe \/ SubscribeAgain \/ Tick \/ Unsubscribe

SpecSharedTake == Init /\ [][NextSharedTake]_vars

\* Chains of flatMapLatest with several subscriptions.
NextSharedFlat == FlatMapLatest \/ Subscribe \/ SubscribeAgain \/ Tick \/ Unsubscribe

SpecSharedFlat == Init /\ [][NextSharedFlat]_vars

\* eventstream(producer) with a producer that emits one value within its
\* start, constructed and not subscribed; chains of maps and takes on it.
InitSync ==
    /\ \E v \in Values :
          stream = eventstream(
                      [heap |-> <<>>, subs |-> <<>>, insts |-> <<>>, timers |-> <<>>,
                       log |-> <<>>, ret |-> undefined, exc |-> <<>>],
                      <<"syncProducer", 1, v>>, noFunction).ret
    /\ chain = <<>>
    /\ heap = <<>>
    /\ subs = <<>>
    /\ insts = <<>>
    /\ timers = <<>>
    /\ log = <<>>

SpecSync == InitSync /\ [][Next]_vars

\* stop = stream.subscribe(onNext, onEnd, onError) with an onNext that throws.
SubscribeThrowing ==
    \E withEnd \in BOOLEAN :
        /\ subs = <<>>
        /\ LET k == Len(subs) + 1
               m == subscribe(Emit(Machine, <<"subscribe", k, 0>>), stream,
                              <<"throwingConsumer", k>>,
                              IF withEnd THEN <<"consumer", "onEnd", k>> ELSE noFunction,
                              <<"consumer", "onError", k>>)
           IN  Commit(IF Threw(m) THEN Emit(Caught(m), <<"uncaught", 0, m.exc[1]>>) ELSE m)
        /\ UNCHANGED <<stream, chain>>

\* Chains of map, filter, scan and diff with a consumer whose onNext throws.
NextThrowing ==
    Map \/ Filter \/ Scan \/ Diff \/ SubscribeThrowing \/ Tick \/ Unsubscribe

SpecThrowing == Init /\ [][NextThrowing]_vars

\* Chains of the combinators that transform one value at a time.
NextLinear == Map \/ Filter \/ Scan \/ Diff \/ Subscribe \/ Tick \/ Unsubscribe

SpecLinear == Init /\ [][NextLinear]_vars

\* Chains with the combinators that join a second stream.
NextJoin ==
    \/ Map \/ Merge \/ CombineLatest \/ SampledBy \/ TakeUntil
    \/ Subscribe \/ Tick \/ Unsubscribe

SpecJoin == Init /\ [][NextJoin]_vars

\* stream = stream.takeUntil(x => x % 2 === 0): a predicate in the place of
\* the other stream.  When the call throws, stream keeps its value.
TakeUntilPredicate ==
    /\ subs = <<>>
    /\ Len(chain) < MaxLen
    /\ LET m == takeUntil(Machine, stream,
                          FunctionObject(<<"user", "isEven", Len(chain) + 1>>))
       IN  IF Threw(m)
           THEN Commit(Emit(Caught(m), <<"uncaught", 0, m.exc[1]>>)) /\ stream' = stream
           ELSE Commit(m) /\ stream' = m.ret
    /\ chain' = Append(chain, Stage("takeUntilPredicate", "isEven", 0, ""))

NextPredicate == Map \/ TakeUntilPredicate \/ Subscribe \/ Tick \/ Unsubscribe

SpecPredicate == Init /\ [][NextPredicate]_vars

\* stream = stream.takeUntil(eventstream(producerB).delay(timeout))
TakeUntilDelayed ==
    /\ subs = <<>>
    /\ Len(chain) < MaxLen
    /\ LET b == eventstream(Machine, <<"producer", 2>>, noFunction)
           d == delay(b, b.ret, Timeout)
           m == takeUntil(d, stream, d.ret)
       IN  Commit(m) /\ stream' = m.ret
    /\ chain' = Append(chain, Stage("takeUntil", "", Len(heap) + 1, "delayed"))

\* Chains of maps and takeUntil on a delayed stream.
NextUntilDelayed == Map \/ TakeUntilDelayed \/ Subscribe \/ Tick \/ Fire \/ Unsubscribe

SpecUntilDelayed == Init /\ [][NextUntilDelayed]_vars

----------------------------------------------------------------------------
\* Reading the history.  An environment step (a subscribe call, an event of a
\* source, a call of the returned stop function) begins with its marker; the
\* calls it caused follow, in the order they were made.
Markers == {"subscribe", "tick", "unsubscribe", "timer"}
Ev(kind, id) == {i \in DOMAIN log : log[i][1] = kind /\ log[i][2] = id}
StepOf(i) == CHOOSE j \in 1..i :
                /\ log[j][1] \in Markers
                /\ \A x \in (j + 1)..i : log[x][1] \notin Markers
SameStep(i, j) == StepOf(i) = StepOf(j)
\* The producer starts made by subscription k.
StartedBy(k) == {log[j][3] : j \in {x \in DOMAIN log : /\ log[x][1] = "start"
                                                       /\ log[StepOf(x)][1] = "subscribe"
                                                       /\ log[StepOf(x)][2] = k}}
StopsUpTo(i, inst) == Cardinality({j \in Ev("stop", inst) : j <= i})
Is(i, kind, id) == i \in DOMAIN log /\ log[i][1] = kind /\ log[i][2] = id

\* C1: laziness.  While a chain of combinators is being built and nothing is
\* subscribed, nothing has been called: no producer was started, no function
\* handed to a combinator was invoked, no timer was set.  The producers of the
\* stream and of the streams joined to it are started only within a subscribe
\* call of the consumer, and a producer of a stream spawned by flatMap only by
\* the subscribe call flatMap makes on that stream.
C1_BuildingCallsNothing ==
    /\ subs = <<>> => log = <<>> /\ insts = <<>> /\ timers = <<>>
    /\ \A i \in DOMAIN log :
          (log[i][1] = "start" /\ log[i][2] \in {1, 2}) => log[StepOf(i)][1] = "subscribe"
    /\ subs # <<>> =>
          Cardinality({i \in DOMAIN log : log[i][1] = "start" /\ log[i][2] = 3}) = Len(subs) - 1

\* A chain of two combinators, one of them joining a second stream that has its
\* own transform, was built and then subscribed: both producers were started
\* and a function handed to a combinator has been called since.
C1_Witness ==
    /\ Len(chain) >= 2
    /\ \E j \in DOMAIN chain : chain[j].other = "mapped"
    /\ \E j \in DOMAIN chain : chain[j].fn # ""
    /\ subs # <<>>
    /\ \E i \in DOMAIN log : log[i][1] = "start" /\ log[i][2] = 1
    /\ \E i \in DOMAIN log : log[i][1] = "start" /\ log[i][2] = 2
    /\ \E i \in DOMAIN log : log[i][1] = "fn"

\* C2: for every subscription, once the stop function subscribe returned has
\* been called two or more times, the producer's own stop function has been
\* invoked exactly once.
C2_StopTwiceStopsOnce ==
    \A k \in DOMAIN subs :
        Cardinality(Ev("unsubscribe", k)) >= 2 =>
            \A inst \in StartedBy(k) : Cardinality(Ev("stop", inst)) = 1

\* C3: over any sequence of events, sentinel arrivals and external stop calls
\* the producer's stop function is invoked at most once per start.
C3_StopAtMostOncePerStart ==
    \A inst \in DOMAIN insts : Cardinality(Ev("stop", inst)) <= 1

\* C4: when the sentinel reaches the terminal handler of a subscription, the
\* producer's stop function has then been invoked exactly once, and that
\* invocation comes before the call of onEnd, which follows at once when onEnd
\* was given and is absent when it was not.
EndFollows(k, p) ==
    IF IsFunction(subs[k].onEnd) THEN Is(p, "onEnd", k)
    ELSE ~(p \in DOMAIN log /\ log[p][1] = "onEnd")
C4_SentinelStopsOnceBeforeOnEnd ==
    \A k \in DOMAIN subs : \A i \in Ev("terminal", k) :
        log[i][3] = EXHAUST_SIGNAL =>
            \A inst \in StartedBy(k) :
                \/ /\ Is(i + 1, "stop", inst)
                   /\ StopsUpTo(i + 1, inst) = 1
                   /\ EndFollows(k, i + 2)
                \/ /\ ~Is(i + 1, "stop", inst)
                   /\ StopsUpTo(i, inst) = 1
                   /\ EndFollows(k, i + 1)

\* Witness of C4: a sentinel reached the terminal handler of a subscription
\* that gave onEnd, and onEnd was called.
C4_Witness ==
    \E k \in DOMAIN subs :
        /\ \E i \in Ev("terminal", k) : log[i][3] = EXHAUST_SIGNAL
        /\ Ev("onEnd", k) # {}
        /\ \E inst \in StartedBy(k) : Ev("stop", inst) # {}

\* Values of the history events of one kind and id, in order.
Events(kind, id) == SelectSeq(log, LAMBDA e : e[1] = kind /\ e[2] = id)
Vals(seq) == [i \in DOMAIN seq |-> seq[i][3]]
Nth(S, n) == CHOOSE i \in S : Cardinality({j \in S : j <= i}) = n
Min(a, b) == IF a < b THEN a ELSE b
LastStage == chain[Len(chain)]
EndsWithTake == chain # <<>> /\ LastStage.op = "take"

\* C5: take(n), n >= 1, as the last combinator before subscribe: onNext
\* receives exactly the first n values that arrive at take, in order; on the
\* step of the n-th arrival the sentinel reaches the terminal handler, the
\* producer is stopped and onEnd (if given) is called; no value is delivered
\* after that.
C5_TakeDeliversFirstN ==
    \A k \in DOMAIN subs :
        (EndsWithTake /\ LastStage.n >= 1) =>
            LET n == LastStage.n
                A == Events("take", LastStage.cell)
                firstN == SubSeq(A, 1, Min(n, Len(A)))
                pos == Nth(Ev("take", LastStage.cell), n)
            IN  /\ Vals(Events("onNext", k))
                     = Vals(SelectSeq(firstN, LAMBDA e : e[3] # EXHAUST_SIGNAL))
                /\ Len(A) >= n =>
                     \E t \in Ev("terminal", k) :
                        /\ log[t][3] = EXHAUST_SIGNAL
                        /\ t > pos /\ SameStep(t, pos)
                        /\ \A inst \in StartedBy(k) :
                              \E s \in Ev("stop", inst) : SameStep(s, pos)
                        /\ IsFunction(subs[k].onEnd) =>
                              \E e \in Ev("onEnd", k) : e > t /\ SameStep(e, pos)
                        /\ \A x \in Ev("onNext", k) : x < t

\* Witness of C5: take(2) is last, the second value arrived at it, two values
\* were delivered and onEnd was called.
C5_Witness ==
    /\ EndsWithTake /\ LastStage.n = 2
    /\ Len(Events("take", LastStage.cell)) >= 2
    /\ \E k \in DOMAIN subs : Len(Events("onNext", k)) = 2 /\ Ev("onEnd", k) # {}

\* C6: take(n), n <= 0, as the last combinator before subscribe: once a value
\* has arrived at take the stream has ended (the sentinel reached the terminal
\* handler, the producer is stopped, onEnd was called if given) and no value
\* was forwarded to onNext.
C6_TakeZeroEndsAtOnce ==
    \A k \in DOMAIN subs :
        (EndsWithTake /\ LastStage.n <= 0 /\ Ev("take", LastStage.cell) # {}) =>
            /\ Ev("onNext", k) = {}
            /\ \E t \in Ev("terminal", k) : log[t][3] = EXHAUST_SIGNAL
            /\ \A inst \in StartedBy(k) : Ev("stop", inst) # {}
            /\ IsFunction(subs[k].onEnd) => Ev("onEnd", k) # {}

\* C7: the sentinel is never passed to onNext: when it reaches the terminal
\* handler the next call is not onNext, the subscription has been torn down,
\* and onEnd (if given) is called.
C7_SentinelNeverToOnNext ==
    \A k \in DOMAIN subs :
        /\ \A i \in Ev("onNext", k) : log[i][3] # EXHAUST_SIGNAL
        /\ \A i \in Ev("terminal", k) :
              log[i][3] = EXHAUST_SIGNAL =>
                 /\ ~Is(i + 1, "onNext", k)
                 /\ ~subs[k].canUnsubscribe
                 /\ \A inst \in StartedBy(k) : ~insts[inst].active
                 /\ IsFunction(subs[k].onEnd) =>
                       Is(i + 1, "onEnd", k) \/ Is(i + 2, "onEnd", k)

\* Witness of C7: the sentinel reached the terminal handler after a value was
\* delivered.
C7_Witness ==
    \E k \in DOMAIN subs :
        /\ Ev("onNext", k) # {}
        /\ \E i \in Ev("terminal", k) : log[i][3] = EXHAUST_SIGNAL

\* The place in the chain of the transform a history event belongs to.
IsTransformEvent(i) == log[i][1] \in {"fn", "take"}
StageOf(i) ==
    IF log[i][1] = "fn" THEN log[i][2]
    ELSE CHOOSE j \in DOMAIN chain : chain[j].op = "take" /\ chain[j].cell = log[i][2]
\* The function a call in the history names: the function of a stage of the
\* chain, the function the joined stream of a stage was mapped with, or the
\* function a stream spawned for flatMap was mapped with.
FnName(uid) == IF uid > 200 THEN "evenOrThrow" ELSE IF uid > 100 THEN "inc" ELSE chain[uid].fn
FnThrows(i) == log[i][1] = "fn" /\ UserThrows(FnName(log[i][2]), log[i][3], log[i][4])
FnReturns(i) == log[i][1] = "fn" /\ ~UserThrows(FnName(log[i][2]), log[i][3], log[i][4])
FnValue(i) == UserResult(FnName(log[i][2]), log[i][3], log[i][4])
\* The call at place p hands value v to the stage after stage j.
HandsOn(k, j, v, p) ==
    /\ p \in DOMAIN log
    /\ log[p][3] = v
    /\ IF j = Len(chain) THEN log[p][1] = "terminal" /\ log[p][2] = k
       ELSE IsTransformEvent(p) /\ StageOf(p) = j + 1

\* C8: with onError given, a throw of the function given to map is followed
\* by exactly one call of onError with the thrown error; nothing is handed
\* downstream for that value (no onNext), the subscription is not stopped,
\* and every call of the function that returns hands its result on: when map
\* is the last combinator, onNext receives f(value).
C8_MapErrorIsolated ==
    \A k \in DOMAIN subs :
        IsFunction(subs[k].onError) =>
            /\ Len(Events("onError", k))
                  = Cardinality({i \in DOMAIN log : FnThrows(i)})
            /\ \A i \in DOMAIN log :
                  /\ FnThrows(i) =>
                        /\ Is(i + 1, "onError", k) /\ log[i + 1][3] = ErrorObject
                        /\ (i + 2) \in DOMAIN log =>
                              log[i + 2][1] \notin {"onError", "terminal", "onNext",
                                                    "stop", "onEnd", "uncaught"}
                  /\ FnReturns(i) =>
                        /\ HandsOn(k, log[i][2], FnValue(i), i + 1)
                        /\ (log[i][2] = Len(chain) /\ FnValue(i) # EXHAUST_SIGNAL) =>
                              Is(i + 2, "onNext", k) /\ log[i + 2][3] = FnValue(i)

\* Witness of C8: the function of a map threw on one event, onError was
\* called, the source still runs and a later event was delivered to onNext.
C8_Witness ==
    \E k \in DOMAIN subs : \E i \in DOMAIN log :
        /\ FnThrows(i)
        /\ Is(i + 1, "onError", k)
        /\ \E j \in Ev("onNext", k) : j > i /\ ~SameStep(i, j)
        /\ \A inst \in StartedBy(k) : insts[inst].active

\* C9: when a transform throws on a value, every transform upstream of it has
\* been invoked on that step, and no transform downstream of it is invoked
\* for that value; a transform right after a map is invoked only with what
\* the map's function returned.
C9_ThrowStopsTheValue ==
    \A i \in DOMAIN log :
        log[i][1] = "fn" =>
            /\ \A a \in 1..(log[i][2] - 1) :
                  \E p \in 1..(i - 1) :
                     SameStep(p, i) /\ IsTransformEvent(p) /\ StageOf(p) = a
            /\ FnThrows(i) =>
                  \A p \in (i + 1)..Len(log) :
                     (SameStep(p, i) /\ IsTransformEvent(p) /\ StageOf(p) > log[i][2]) =>
                        \E q \in (i + 1)..(p - 1) :
                           IsTransformEvent(q) /\ StageOf(q) <= log[i][2]
            /\ (log[i][2] > 1 /\ chain[log[i][2] - 1].op = "map") =>
                  /\ FnReturns(i - 1)
                  /\ log[i - 1][2] = log[i][2] - 1
                  /\ FnValue(i - 1) = log[i][3]

\* Witness of C9: the second of two maps threw after the first was invoked,
\* and on another event the first threw and the second was not invoked.
C9_Witness ==
    /\ Len(chain) >= 2 /\ chain[1].op = "map" /\ chain[2].op = "map"
    /\ \E i \in DOMAIN log : FnThrows(i) /\ log[i][2] = 2
    /\ \E i \in DOMAIN log :
          FnThrows(i) /\ log[i][2] = 1 /\ ~(Is(i + 1, "fn", 2) \/ Is(i + 2, "fn", 2))

\* C10: without onError, an error thrown by a transform is never dropped: it
\* is thrown out of the pipeline to the event source whose call of the
\* handler pushed the value.
C10_UnhandledErrorIsThrown ==
    \A k \in DOMAIN subs :
        ~IsFunction(subs[k].onError) =>
            \A i \in DOMAIN log :
                FnThrows(i) =>
                    /\ log[StepOf(i)][1] = "tick"
                    /\ Is(i + 1, "uncaught", log[StepOf(i)][2])
                    /\ log[i + 1][3] = ErrorObject

\* Witness of C10: subscribed without onError, the function of a map threw
\* and the error reached the event source.
C10_Witness ==
    \E k \in DOMAIN subs :
        /\ ~IsFunction(subs[k].onError)
        /\ \E i \in DOMAIN log : FnThrows(i) /\ Is(i + 1, "uncaught", log[StepOf(i)][2])

----------------------------------------------------------------------------
\* Chains of map, filter, scan and diff over one event source: every event
\* pushes one value down the chain, and each stage calls its function once
\* with the value that arrived at it.
FnAt(j) == {i \in DOMAIN log : log[i][1] = "fn" /\ log[i][2] = j}
Max(S) == CHOOSE x \in S : \A y \in S : y <= x
OpOf(i) == chain[log[i][2]].op
\* Whether the stage of the call at i hands a value to the next stage, and which.
Forwards(i) ==
    /\ FnReturns(i)
    /\ OpOf(i) = "filter" => Truthy(FnValue(i))
Forwarded(i) == IF OpOf(i) = "filter" THEN log[i][3] ELSE FnValue(i)
\* The value that arrived at the stage of the call at i: the value of the
\* event for the first stage, what the stage before handed on for the others.
Arrived(i) ==
    IF log[i][2] = 1 THEN log[StepOf(i)][3] ELSE Forwarded(i - 1)
ArrivalIsSound(i) ==
    IF log[i][2] = 1 THEN i = StepOf(i) + 1 /\ log[StepOf(i)][1] = "tick"
    ELSE log[i - 1][1] = "fn" /\ log[i - 1][2] = log[i][2] - 1 /\ Forwards(i - 1)
\* The call at place p is the next stage after stage j (the terminal handler
\* after the last) receiving value v.
Receives(k, j, v, p) ==
    /\ p \in DOMAIN log
    /\ IF j = Len(chain) THEN log[p][1] = "terminal" /\ log[p][2] = k /\ log[p][3] = v
       ELSE /\ log[p][1] = "fn" /\ log[p][2] = j + 1
            /\ v = IF chain[j + 1].op \in {"scan", "diff"} THEN log[p][4] ELSE log[p][3]
\* The error of the call at i went to the error handler and nothing else
\* happened for this value.
ErrorOnly(k, i) ==
    /\ IF IsFunction(subs[k].onError)
       THEN Is(i + 1, "onError", k) /\ log[i + 1][3] = ErrorObject
       ELSE Is(i + 1, "uncaught", log[StepOf(i)][2]) /\ log[i + 1][3] = ErrorObject
    /\ (i + 2) \in DOMAIN log => log[i + 2][1] \in Markers

\* C11: scan(seed, f): every call of f gets as accumulator the result of the
\* latest earlier call of f that returned (seed when there is none) and as
\* second argument the value that arrived; a result is forwarded at once to
\* the next stage; when f throws nothing is forwarded for that value, and the
\* accumulator of the next call is unchanged.
C11_ScanAccumulates ==
    \A k \in DOMAIN subs : \A j \in DOMAIN chain :
        chain[j].op = "scan" =>
            \A i \in FnAt(j) :
                LET done == {p \in FnAt(j) : p < i /\ FnReturns(p)}
                IN  /\ log[i][3] = IF done = {} THEN Seed ELSE FnValue(Max(done))
                    /\ ArrivalIsSound(i)
                    /\ log[i][4] = Arrived(i)
                    /\ FnReturns(i) => Receives(k, j, FnValue(i), i + 1)
                    /\ FnThrows(i) => ErrorOnly(k, i)

\* Witness of C11: f returned, threw on a later value, and was then called
\* with the accumulator the first call had returned.
C11_Witness ==
    \E j \in DOMAIN chain : \E a, b, c \in FnAt(j) :
        /\ chain[j].op = "scan"
        /\ a < b /\ b < c
        /\ FnReturns(a) /\ FnThrows(b) /\ FnReturns(c)
        /\ log[c][3] = FnValue(a) /\ FnValue(a) # Seed

\* C12: diff(start, f), when f never throws: every call of f gets as first
\* argument the value that arrived before this one (start for the first) and
\* as second argument the value that arrived, and its result is forwarded at
\* once to the next stage.
C12_DiffComparesWithPreviousValue ==
    \A k \in DOMAIN subs : \A j \in DOMAIN chain :
        (chain[j].op = "diff" /\ \A p \in FnAt(j) : FnReturns(p)) =>
            \A i \in FnAt(j) :
                LET earlier == {p \in FnAt(j) : p < i}
                IN  /\ log[i][3] = IF earlier = {} THEN Seed ELSE Arrived(Max(earlier))
                    /\ ArrivalIsSound(i)
                    /\ log[i][4] = Arrived(i)
                    /\ Receives(k, j, FnValue(i), i + 1)

\* Witness of C12: three values arrived at a diff whose function never threw;
\* the third call compared with the second value, which differs from what the
\* second call returned.
C12_Witness ==
    \E j \in DOMAIN chain : \E a, b, c \in FnAt(j) :
        /\ chain[j].op = "diff"
        /\ \A p \in FnAt(j) : FnReturns(p)
        /\ a < b /\ b < c
        /\ log[c][3] = log[b][4] /\ log[c][3] # FnValue(b)

\* C13: diff(start, f) sets its previous value on every value that arrives,
\* whether f returned or threw: every call of f gets as first argument the
\* value that arrived just before this one (start for the first), also when
\* the call for that value threw.
C13_DiffAdvancesOnEveryValue ==
    \A j \in DOMAIN chain :
        chain[j].op = "diff" =>
            \A i \in FnAt(j) :
                LET earlier == {p \in FnAt(j) : p < i}
                IN  log[i][3] = IF earlier = {} THEN Seed ELSE Arrived(Max(earlier))

\* Every value that arrives at stage j is given to the function of stage j.
EveryArrivalIsCalled(j) ==
    IF j = 1
    THEN \A t \in DOMAIN log : log[t][1] = "tick" => Is(t + 1, "fn", 1)
    ELSE \A p \in FnAt(j - 1) : Forwards(p) => Is(p + 1, "fn", j)
\* Nothing happens for the value after the call at i.
NothingAfter(i) == (i + 1) \in DOMAIN log => log[i + 1][1] \in Markers

\* C14: filter(p): p is called with every value that arrives; the value is
\* handed unchanged and at once to the next stage exactly when p returned a
\* truthy result; when p throws the value is not forwarded and the error goes
\* to the error handler, and values that arrive later are filtered as before.
C14_FilterForwardsAccepted ==
    \A k \in DOMAIN subs : \A j \in DOMAIN chain :
        chain[j].op = "filter" =>
            /\ EveryArrivalIsCalled(j)
            /\ \A i \in FnAt(j) :
                  /\ ArrivalIsSound(i)
                  /\ log[i][3] = Arrived(i)
                  /\ (FnReturns(i) /\ Truthy(FnValue(i))) => Receives(k, j, log[i][3], i + 1)
                  /\ (FnReturns(i) /\ ~Truthy(FnValue(i))) => NothingAfter(i)
                  /\ FnThrows(i) => ErrorOnly(k, i)

\* Witness of C14: one filter accepted a value, rejected another and threw on
\* a third, and the accepted value was delivered.
C14_Witness ==
    \E j \in DOMAIN chain : \E a, b, c \in FnAt(j) :
        /\ chain[j].op = "filter" /\ j = Len(chain)
        /\ Forwards(a) /\ Is(a + 2, "onNext", 1) /\ log[a + 2][3] = log[a][3]
        /\ FnReturns(b) /\ ~Truthy(FnValue(b))
        /\ FnThrows(c)

----------------------------------------------------------------------------
\* A join as the last combinator, applied to a chain of maps over the first
\* event source; its second stream is the second event source mapped with inc.
JoinLast(op) ==
    /\ chain # <<>>
    /\ LastStage.op = op
    /\ \A s \in 1..(Len(chain) - 1) : chain[s].op = "map"
\* The event source an instance is a run of.
ProducerOf(inst) == log[CHOOSE i \in DOMAIN log : log[i][1] = "start" /\ log[i][3] = inst][2]
FromA(e) == ProducerOf(e[2]) = 1
\* What the maps from stage s on make of value v: <<result>>, or <<>> when one throws.
RECURSIVE MapsResult(_, _)
MapsResult(v, s) ==
    IF s >= Len(chain) THEN <<v>>
    ELSE IF UserThrows(chain[s].fn, v, undefined) THEN <<>>
    ELSE MapsResult(UserResult(chain[s].fn, v, undefined), s + 1)
\* What an event (a "tick" entry of the history) delivers to the join.
SideResult(e) ==
    IF FromA(e) THEN MapsResult(e[3], 1)
    ELSE IF LastStage.other = "mapped" THEN <<UserResult("inc", e[3], undefined)>>
    ELSE <<e[3]>>
Ticks == SelectSeq(log, LAMBDA e : e[1] = "tick")

\* C15: merge: the values delivered to onNext are, in the order of the events
\* of the two sources, what each event's own side made of its value, each
\* exactly once and unchanged by merge.
RECURSIVE MergeOutputs(_)
MergeOutputs(ticks) ==
    IF ticks = <<>> THEN <<>> ELSE SideResult(Head(ticks)) \o MergeOutputs(Tail(ticks))
C15_MergeForwardsInOrder ==
    \A k \in DOMAIN subs :
        JoinLast("merge") =>
            /\ Vals(Events("onNext", k)) = MergeOutputs(Ticks)
            /\ \A i \in Ev("onNext", k) : SameStep(i, i - 1) /\ log[StepOf(i)][1] = "tick"

\* Witness of C15: events of both sources were delivered, the first source's
\* between two of the second.
C15_Witness ==
    /\ JoinLast("merge")
    /\ Len(Ticks) = 3
    /\ ~FromA(Ticks[1]) /\ FromA(Ticks[2]) /\ ~FromA(Ticks[3])
    /\ Len(Events("onNext", 1)) = 3

\* C16: a join keeps each side's own chain.  With a join as the last
\* combinator of A.map(f)..., joined with B.map(g): on every event of A, f is
\* called with the event's value and g is not called; on every event of B, g
\* is called with the event's value and no function of A's chain is called.
Joins == {"merge", "combineLatest", "sampledBy", "takeUntil"}
IsASideFn(i) == log[i][1] = "fn" /\ log[i][2] < Len(chain)
IsBSideFn(i) == log[i][1] = "fn" /\ log[i][2] = 100 + Len(chain)
C16_JoinKeepsSideChains ==
    \A op \in Joins :
        JoinLast(op) =>
            \A t \in DOMAIN log :
                log[t][1] = "tick" =>
                    IF FromA(log[t])
                    THEN /\ Len(chain) > 1 => Is(t + 1, "fn", 1) /\ log[t + 1][3] = log[t][3]
                         /\ \A i \in DOMAIN log : StepOf(i) = t => ~IsBSideFn(i)
                    ELSE /\ IsBSideFn(t + 1) /\ log[t + 1][3] = log[t][3]
                         /\ \A i \in DOMAIN log : StepOf(i) = t => ~IsASideFn(i)

\* Witness of C16: A.map(f).merge(B.map(g)) has delivered a value of each source.
C16_Witness ==
    /\ JoinLast("merge") /\ Len(chain) = 2
    /\ \E i \in DOMAIN log : IsASideFn(i) /\ FnReturns(i)
    /\ \E i \in DOMAIN log : IsBSideFn(i)
    /\ Len(Events("onNext", 1)) >= 2

\* C17: combineLatest(other, f): nothing is delivered until each source has
\* delivered a value to the join; from then on every value a source delivers
\* to the join makes one call f(latestA, latestB) with the latest value of
\* each side, and its result is delivered to onNext.
RECURSIVE CombineOutputs(_, _, _)
CombineOutputs(ticks, a, b) ==
    IF ticks = <<>> THEN <<>>
    ELSE LET e == Head(ticks)
             r == SideResult(e)
             a2 == IF FromA(e) /\ r # <<>> THEN r ELSE a
             b2 == IF ~FromA(e) /\ r # <<>> THEN r ELSE b
             out == IF r = <<>> \/ a2 = <<>> \/ b2 = <<>> THEN <<>>
                    ELSE IF UserThrows(LastStage.fn, a2[1], b2[1]) THEN <<>>
                    ELSE <<UserResult(LastStage.fn, a2[1], b2[1])>>
         IN  out \o CombineOutputs(Tail(ticks), a2, b2)
C17_CombineLatestAfterBoth ==
    \A k \in DOMAIN subs :
        JoinLast("combineLatest") =>
            /\ Vals(Events("onNext", k)) = CombineOutputs(Ticks, <<>>, <<>>)
            /\ \A i \in Ev("onNext", k) :
                  /\ log[StepOf(i)][1] = "tick"
                  /\ Is(i - 2, "fn", Len(chain)) /\ FnValue(i - 2) = log[i][3]
                  /\ \E x \in 1..StepOf(i) : log[x][1] = "tick" /\ FromA(log[x])
                  /\ \E x \in 1..StepOf(i) : log[x][1] = "tick" /\ ~FromA(log[x])
            /\ \A i \in FnAt(Len(chain)) : Is(i + 2, "onNext", k)

\* Witness of C17: the first source's value alone delivered nothing; the
\* second source's first value and a later value of the first each delivered
\* one combined value.
C17_Witness ==
    /\ JoinLast("combineLatest")
    /\ Len(Ticks) = 3
    /\ FromA(Ticks[1]) /\ ~FromA(Ticks[2]) /\ FromA(Ticks[3])
    /\ Ticks[1][3] # Ticks[3][3]
    /\ Len(Events("onNext", 1)) = 2

\* C18: sampledBy(other): a value of the source itself delivers nothing; a
\* value of other delivers the latest value the source has delivered to the
\* join, once, when there is one, and nothing when there is none.
RECURSIVE SampleOutputs(_, _)
SampleOutputs(ticks, a) ==
    IF ticks = <<>> THEN <<>>
    ELSE LET e == Head(ticks)
             r == SideResult(e)
         IN  IF FromA(e) THEN SampleOutputs(Tail(ticks), IF r # <<>> THEN r ELSE a)
             ELSE a \o SampleOutputs(Tail(ticks), a)
C18_SampledByOther ==
    \A k \in DOMAIN subs :
        JoinLast("sampledBy") =>
            /\ Vals(Events("onNext", k)) = SampleOutputs(Ticks, <<>>)
            /\ \A i \in Ev("onNext", k) :
                  log[StepOf(i)][1] = "tick" /\ ~FromA(log[StepOf(i)])

\* Witness of C18: the source delivered two different values and nothing
\* reached onNext; then other delivered a value and onNext got the second.
C18_Witness ==
    /\ JoinLast("sampledBy")
    /\ Len(Ticks) = 3
    /\ FromA(Ticks[1]) /\ FromA(Ticks[2]) /\ ~FromA(Ticks[3])
    /\ SideResult(Ticks[1]) # SideResult(Ticks[2])
    /\ Vals(Events("onNext", 1)) = SideResult(Ticks[2])
    /\ SideResult(Ticks[2]) # <<>>

\* C19: takeUntil(other): every value the source delivers to the join before
\* the first event of other is given to onNext; the first event of other
\* delivers nothing to onNext, brings the sentinel to the terminal handler,
\* stops both producers and is followed by onEnd (when given) within the same
\* step; no event and no onNext comes after it.
InStep(t, kind) == {i \in DOMAIN log : StepOf(i) = t /\ log[i][1] = kind}
C19_TakeUntilEndsOnOther ==
    \A k \in DOMAIN subs :
        JoinLast("takeUntil") =>
            /\ Vals(Events("onNext", k))
                  = MergeOutputs(SelectSeq(Ticks, LAMBDA e : FromA(e)))
            /\ \A t \in DOMAIN log :
                  (log[t][1] = "tick" /\ ~FromA(log[t])) =>
                      /\ InStep(t, "onNext") = {}
                      /\ \E x \in InStep(t, "terminal") : log[x][3] = EXHAUST_SIGNAL
                      /\ \A inst \in StartedBy(k) :
                            /\ \E x \in InStep(t, "stop") : log[x][2] = inst
                            /\ ~insts[inst].active
                      /\ IsFunction(subs[k].onEnd) =>
                            \E x \in InStep(t, "onEnd") :
                               \A y \in InStep(t, "stop") : y < x
                      /\ \A x \in (t + 1)..Len(log) : log[x][1] \notin {"tick", "onNext"}

\* Witness of C19: a value of the source was delivered, then the first event
\* of other ended the stream and onEnd was called.
C19_Witness ==
    /\ JoinLast("takeUntil")
    /\ Len(Ticks) >= 2
    /\ FromA(Ticks[1]) /\ ~FromA(Ticks[Len(Ticks)])
    /\ Len(Events("onNext", 1)) >= 1
    /\ Ev("onEnd", 1) # {}
    /\ \A inst \in DOMAIN insts : ~insts[inst].active

\* C20: takeUntil(predicate) as the last combinator of a chain of maps:
\* building it throws nothing; the values that arrive are given to onNext as
\* long as the predicate returns a falsy result; the first value for which it
\* returns a truthy result is not given to onNext and ends the stream (the
\* producer is stopped, onEnd is called when given).
RECURSIVE UntilOutputs(_)
UntilOutputs(ticks) ==
    IF ticks = <<>> THEN <<>>
    ELSE LET r == MapsResult(Head(ticks)[3], 1)
         IN  IF r = <<>> THEN UntilOutputs(Tail(ticks))
             ELSE IF Truthy(UserResult(LastStage.fn, r[1], undefined)) THEN <<>>
             ELSE r \o UntilOutputs(Tail(ticks))
UntilEnded(ticks) ==
    \E n \in DOMAIN ticks :
        LET r == MapsResult(ticks[n][3], 1)
        IN  r # <<>> /\ Truthy(UserResult(LastStage.fn, r[1], undefined))
C20_TakeUntilPredicate ==
    JoinLast("takeUntilPredicate") =>
        /\ \A i \in DOMAIN log : ~(log[i][1] = "uncaught" /\ log[i][3] = TypeErrorObject)
        /\ \A k \in DOMAIN subs :
              /\ Vals(Events("onNext", k)) = UntilOutputs(Ticks)
              /\ UntilEnded(Ticks) =>
                    /\ \A inst \in StartedBy(k) : ~insts[inst].active
                    /\ IsFunction(subs[k].onEnd) => Ev("onEnd", k) # {}

----------------------------------------------------------------------------
\* delay.
\* What arrives at the last stage, in order: what the maps before it make of
\* the values of the event source.
RECURSIVE Arrivals(_)
Arrivals(ticks) ==
    IF ticks = <<>> THEN <<>> ELSE MapsResult(Head(ticks)[3], 1) \o Arrivals(Tail(ticks))
TimersSet == SelectSeq(log, LAMBDA e : e[1] = "setTimeout")

\* C21: delay(timeout) as the last combinator, on the base stream or on maps:
\* every value v that arrives sets one timer, nothing is delivered on the step
\* of the arrival, and the timer, when it fires, delivers v itself to onNext
\* exactly once, whatever other timers are pending.
C21_DelayForwardsTheValue ==
    \A k \in DOMAIN subs :
        JoinLast("delay") =>
            /\ Len(TimersSet) = Len(Arrivals(Ticks))
            /\ \A i \in Ev("onNext", k) : log[StepOf(i)][1] = "timer"
            /\ \A t \in DOMAIN log :
                  log[t][1] = "timer" =>
                     /\ log[t][2] <= Len(Arrivals(Ticks))
                     /\ Is(t + 1, "terminal", k)
                     /\ Is(t + 2, "onNext", k)
                     /\ log[t + 2][3] = Arrivals(Ticks)[log[t][2]]
                     /\ NothingAfter(t + 2)

\* The subscriptions the consumer made (flatMap makes the others).
Consumers == {k \in DOMAIN subs : Ev("subscribe", k) # {}}

\* C22: once the stop function subscribe returned has been called, every
\* resource of the subscription is released: no event source is running (the
\* producer, the joined producers and the producers of flatMap's children are
\* stopped), no timer set by delay is pending, however many values were in
\* flight, and no value is delivered to onNext on a later step.
C22_StopReleasesEverything ==
    \A k \in Consumers : \A u \in Ev("unsubscribe", k) :
        /\ \A i \in DOMAIN insts : ~insts[i].active
        /\ \A id \in DOMAIN timers : ~timers[id].pending
        /\ \A i \in Ev("onNext", k) : i < u

\* The first stop call of subscription k is at place u of the history.
FirstStop(k, u) == u \in Ev("unsubscribe", k) /\ \A x \in Ev("unsubscribe", k) : u <= x
\* The places up to u where the delay with timer variable c set a timer.
SetBy(c, u) == {i \in 1..u : log[i][1] = "setTimeout" /\ log[i][4] = c}
\* The places within step u where the delay with timer variable c cleared one.
ClearedBy(c, u) == {i \in DOMAIN log : /\ log[i][1] = "clearTimeout"
                                        /\ log[i][3] = c
                                        /\ StepOf(i) = u}

\* C30: teardown of a delay stream.  One stop call makes every delay of the
\* chain call clearTimeout exactly once, with the timer it set last (with
\* undefined when it set none), so that this timer is no longer pending, and
\* calls the stop function of the producer exactly once.
C30_DelayTeardown ==
    \A k \in Consumers : \A u \in DOMAIN log :
        FirstStop(k, u) =>
            /\ \A j \in DOMAIN chain :
                  chain[j].op = "delay" =>
                     LET c == chain[j].cell
                         last == IF SetBy(c, u) = {} THEN 0 ELSE log[Max(SetBy(c, u))][2]
                     IN  /\ Cardinality(ClearedBy(c, u)) = 1
                         /\ \A i \in ClearedBy(c, u) : log[i][2] = last
                         /\ last # 0 => ~timers[last].pending
            /\ \A inst \in StartedBy(k) :
                  Cardinality({s \in Ev("stop", inst) : StepOf(s) = u}) = 1

\* Witness of C30: a delay had two timers pending when the subscription was
\* stopped; the second was cleared and the producer was stopped.
C30_Witness ==
    \E k \in Consumers : \E u \in DOMAIN log : \E j \in DOMAIN chain :
        /\ FirstStop(k, u)
        /\ chain[j].op = "delay"
        /\ Cardinality(SetBy(chain[j].cell, u)) = 2
        /\ \A t \in 1..u : log[t][1] # "timer"
        /\ \E i \in ClearedBy(chain[j].cell, u) : log[i][2] = 2
        /\ \E inst \in StartedBy(k) : Ev("stop", inst) # {}

----------------------------------------------------------------------------
\* flatMap and flatMapLatest.
\* The places of the history where stage j started the producer of a stream
\* its function returned: the start follows the call of the function.
ChildStarts(j) == {i \in DOMAIN log : /\ log[i][1] = "start"
                                       /\ Is(i - 1, "fn", j)}
Children(j) == {log[i][3] : i \in ChildStarts(j)}

\* C23: flatMapLatest: at most one of the streams it subscribed to is running;
\* the producer of a stream is stopped before the producer of the next stream
\* is started, and no event of the earlier stream comes after that start.
C23_LatestOnly ==
    \A j \in DOMAIN chain :
        chain[j].op = "flatMapLatest" =>
            /\ Cardinality({c \in Children(j) : insts[c].active}) <= 1
            /\ \A a, b \in ChildStarts(j) :
                  a < b =>
                     /\ \E s \in Ev("stop", log[a][3]) : s < b
                     /\ \A t \in Ev("tick", log[a][3]) : t < b

\* Witness of C23: flatMapLatest is the last combinator; its first stream
\* delivered a value, then a second stream was started and delivered a value.
C23_Witness ==
    \E a, b \in ChildStarts(Len(chain)) :
        /\ LastStage.op = "flatMapLatest"
        /\ a < b
        /\ \E t \in Ev("tick", log[a][3]) : Is(t + 3, "onNext", 1)
        /\ insts[log[b][3]].active

FlatStages == {j \in DOMAIN chain : chain[j].op \in {"flatMap", "flatMapLatest"}}
\* The stream started at place a of the history was running when the step of
\* place s began.
RunningBefore(a, s) == a < StepOf(s) /\ \A x \in Ev("stop", log[a][3]) : x > StepOf(s)
\* The place where the producer instance started at place a was first stopped.
FirstStopOf(a) == Min(CHOOSE x \in Ev("stop", log[a][3]) :
                          \A y \in Ev("stop", log[a][3]) : x <= y, Len(log))

\* C24: teardown of a flatMap or flatMapLatest subscription, by the stop
\* function or by the sentinel: when the stop function of the subscription's
\* own producer is called, every stream the combinator subscribed to that was
\* still running has been stopped before it within the same step, and these
\* streams were stopped in the order they were created.
C24_ChildrenThenParent ==
    \A k \in Consumers : \A p \in StartedBy(k) : \A s \in Ev("stop", p) :
        \A j \in FlatStages : \A a \in ChildStarts(j) :
            RunningBefore(a, s) =>
                /\ \E x \in Ev("stop", log[a][3]) : StepOf(s) < x /\ x < s
                /\ \A b \in ChildStarts(j) :
                      (a < b /\ RunningBefore(b, s)) => FirstStopOf(a) < FirstStopOf(b)

\* Witness of C24: a flatMap with two running streams was torn down: both
\* were stopped, the older first, and then the producer.
C24_Witness ==
    \E k \in Consumers : \E p \in StartedBy(k) : \E s \in Ev("stop", p) :
        \E a, b \in ChildStarts(Len(chain)) :
            /\ Len(chain) = 1 /\ LastStage.op = "flatMap"
            /\ a < b
            /\ log[StepOf(s)][1] = "unsubscribe"
            /\ RunningBefore(a, s) /\ RunningBefore(b, s)
            /\ FirstStopOf(a) < FirstStopOf(b) /\ FirstStopOf(b) < s

\* The stream of subscription k has ended: the sentinel reached its terminal handler.
Ended(k) == \E t \in Ev("terminal", k) : log[t][3] = EXHAUST_SIGNAL

NoTake == \A j \in DOMAIN chain : chain[j].op # "take"
\* The subscriptions flatMap made to streams that have ended by themselves.
EndedChildren == {c \in DOMAIN subs \ Consumers : Ended(c)}

\* C26: a stream flatMap subscribed to that ends by itself does not end the
\* parent.  While the consumer has not called stop and no take is in the
\* chain, the parent's onEnd is not called and its producer is not stopped,
\* whatever streams of flatMap have ended; and with flatMap or flatMapLatest
\* last, over streams that end after one value, every value of such a stream
\* is delivered to onNext on the step it is emitted.
C26_ChildEndKeepsParent ==
    \A k \in Consumers :
        (NoTake /\ Ev("unsubscribe", k) = {}) =>
            /\ ~Ended(k)
            /\ Ev("onEnd", k) = {}
            /\ \A p \in StartedBy(k) : insts[p].active /\ Ev("stop", p) = {}
            /\ (chain # <<>> /\ LastStage.fn = "spawnOnce") =>
                  \A c \in Children(Len(chain)) : \A t \in Ev("tick", c) :
                      \E i \in Ev("onNext", k) : StepOf(i) = t /\ log[i][3] = log[t][3]

\* Witness of C26: a stream of a flatMap delivered its value and ended; the
\* next value of the source started another stream.
C26_Witness ==
    \E k \in Consumers : \E c \in EndedChildren : \E a, b \in ChildStarts(Len(chain)) :
        /\ NoTake /\ LastStage.op = "flatMap" /\ LastStage.fn = "spawnOnce"
        /\ Ev("unsubscribe", k) = {}
        /\ Len(Events("onNext", k)) = 1
        /\ a < b
        /\ \E t \in Ev("terminal", c) : log[t][3] = EXHAUST_SIGNAL /\ a < t /\ t < b
        /\ insts[log[b][3]].active

\* flatMap or flatMapLatest is the last combinator and its function is f.
FlatLast(f) == chain # <<>> /\ LastStage.op \in {"flatMap", "flatMapLatest"} /\ LastStage.fn = f

\* C27: flatMap or flatMapLatest last, over streams mapped with a function
\* that throws on odd values.  Every value of such a stream is given to the
\* function; when it throws, the error is handed to the parent's onError once
\* (thrown to the event source when there is no onError), nothing else
\* happens on that step and no producer is stopped; when it returns, the
\* result is delivered to the parent's onNext.
C27_ChildErrorToParent ==
    \A k \in Consumers :
        FlatLast("spawnMapped") =>
            \A c \in Children(Len(chain)) : \A t \in Ev("tick", c) :
                /\ Is(t + 1, "fn", 200 + Len(chain))
                /\ log[t + 1][3] = log[t][3]
                /\ FnThrows(t + 1) => ErrorOnly(k, t + 1)
                /\ FnReturns(t + 1) =>
                      /\ Is(t + 4, "onNext", k) /\ log[t + 4][3] = FnValue(t + 1)
                      /\ NothingAfter(t + 4)

\* Witness of C27: the function of a spawned stream threw, onError of the
\* parent was called, and a later value of the same stream was delivered.
C27_Witness ==
    \E k \in Consumers : \E c \in Children(Len(chain)) : \E t, u \in Ev("tick", c) :
        /\ FlatLast("spawnMapped")
        /\ t < u
        /\ FnThrows(t + 1) /\ Is(t + 2, "onError", k)
        /\ FnReturns(u + 1) /\ Is(u + 4, "onNext", k)
        /\ insts[c].active
        /\ \A p \in StartedBy(k) : insts[p].active

\* flatMap or flatMapLatest as the last combinator, on the base stream or on maps.
FlatOverMaps ==
    /\ chain # <<>>
    /\ LastStage.op \in {"flatMap", "flatMapLatest"}
    /\ \A s \in 1..(Len(chain) - 1) : chain[s].op = "map"
SourceTicks == SelectSeq(Ticks, FromA)

\* C28: flatMap(f) and flatMapLatest(f) as the last combinator, on the base
\* stream or on maps: f is called once for every value that arrives, with that
\* value (with the value the producer emitted when the stream is the base
\* stream), and every value of a stream f returned is delivered unchanged to
\* onNext.
C28_FlatMapCallsWithValue ==
    \A k \in Consumers :
        FlatOverMaps =>
            /\ Vals(Events("fn", Len(chain))) = Arrivals(SourceTicks)
            /\ LastStage.fn = "spawn" =>
                  \A c \in Children(Len(chain)) : \A t \in Ev("tick", c) :
                      Is(t + 3, "onNext", k) /\ log[t + 3][3] = log[t][3]

----------------------------------------------------------------------------
\* Several subscriptions to one stream.
\* The subscription whose subscribe call started producer instance i.
OwnerOf(i) == CHOOSE k \in Consumers : i \in StartedBy(k)
\* The calls of the function of stage j on step t.
CallsIn(j, t) == {i \in FnAt(j) : StepOf(i) = t}

\* C29: every subscribe call starts the producer once, for itself: as many
\* starts as subscriptions.  A stop call stops the run of its own subscription
\* and no other, so a subscription that was not stopped still runs.  On every
\* event of a run each function of the chain is called at most once, exactly
\* once when the stage before it handed a value on, and what is delivered goes
\* to the subscription of that run.
C29_IndependentSubscriptions ==
    /\ Count("start") = Cardinality(Consumers)
    /\ \A k \in Consumers :
          /\ Cardinality(StartedBy(k)) = 1
          /\ \A k2 \in Consumers : k # k2 => StartedBy(k) \cap StartedBy(k2) = {}
          /\ Ev("unsubscribe", k) = {} => \A i \in StartedBy(k) : insts[i].active
          /\ \A u \in Ev("unsubscribe", k) : \A x \in DOMAIN log :
                (log[x][1] = "stop" /\ StepOf(x) = u) => log[x][2] \in StartedBy(k)
          /\ \A u \in Ev("unsubscribe", k) : \A i \in StartedBy(k) :
                Cardinality({x \in Ev("stop", i) : StepOf(x) = u}) = 1
    /\ \A t \in DOMAIN log :
          log[t][1] = "tick" =>
             /\ \A j \in DOMAIN chain :
                   Cardinality(CallsIn(j, t))
                      = IF j = 1 \/ \E i \in CallsIn(j - 1, t) : FnReturns(i) THEN 1 ELSE 0
             /\ \A x \in DOMAIN log :
                   (StepOf(x) = t /\ log[x][1] \in {"terminal", "onNext", "onError", "onEnd"})
                      => log[x][2] = OwnerOf(log[t][2])

\* Witness of C29: two subscriptions to a mapped stream; the first received a
\* value and was stopped, and the second received a value after that.
C29_Witness ==
    \E u \in Ev("unsubscribe", 1) : \E a \in Ev("onNext", 1) : \E b \in Ev("onNext", 2) :
        /\ chain # <<>>
        /\ Consumers = {1, 2}
        /\ Count("start") = 2
        /\ a < u /\ u < b
        /\ Ev("unsubscribe", 2) = {}

----------------------------------------------------------------------------
\* Streams of flatMap that end by themselves.
\* On step t, an event of producer instance c, the stream spawned for a
\* flatMap ended by itself: its sentinel reached its own terminal handler,
\* which stopped c.
ExhaustedAt(c, t) ==
    /\ t \in Ev("tick", c)
    /\ \E x \in DOMAIN log : /\ StepOf(x) = t
                              /\ log[x][1] = "terminal"
                              /\ log[x][2] \notin Consumers
                              /\ log[x][3] = EXHAUST_SIGNAL
    /\ \E x \in Ev("stop", c) : StepOf(x) = t

\* C31: a stream of flatMap or flatMapLatest that has ended by itself is out
\* of the set of running streams: its stop function is no longer held by the
\* combinator, and the stop function of its producer is not called again on
\* any later step, neither by an eviction nor by the teardown of the parent.
C31_ExhaustedChildIsRemoved ==
    \A j \in FlatStages : \A c \in Children(j) : \A t \in DOMAIN log :
        ExhaustedAt(c, t) =>
            /\ \A x \in Ev("stop", c) : StepOf(x) <= t
            /\ \A i \in DOMAIN heap[chain[j].cell] : heap[chain[j].cell][i] # <<"stopFn", c>>

----------------------------------------------------------------------------
\* Joins of joins.
\* stream.merge(other).merge(other'): both joined streams are mapped with inc.
NestedMerge == Len(chain) = 2 /\ chain[1].op = "merge" /\ chain[2].op = "merge"
\* What the consumer is to receive for the events of the three sources.
RECURSIVE NestedOutputs(_)
NestedOutputs(ticks) ==
    IF ticks = <<>> THEN <<>>
    ELSE <<IF FromA(Head(ticks)) THEN Head(ticks)[3]
           ELSE UserResult("inc", Head(ticks)[3], undefined)>> \o NestedOutputs(Tail(ticks))

\* C32: joins compose.  In A.merge(B.map(inc)).merge(C.map(inc)) every value
\* of A reaches onNext as it is and every value v of B or C as inc(v), one
\* delivery for each event, in the order of the events.
C32_NestedJoinKeepsValues ==
    \A k \in Consumers :
        NestedMerge => Vals(Events("onNext", k)) = NestedOutputs(Ticks)

\* stream.merge(other).delay(t), or .flatMap(h), or .flatMapLatest(h): the
\* joined stream is mapped with inc.
JoinThenDeferred ==
    /\ Len(chain) = 2
    /\ chain[1].op = "merge"
    /\ chain[2].op \in {"delay", "flatMap", "flatMapLatest"}
\* On step t value v arrives at the second stage: delay sets a timer for it,
\* or flatMap calls its function with it.
ReachesSecond(t, v) ==
    \E x \in DOMAIN log :
        /\ StepOf(x) = t
        /\ log[x][3] = v
        /\ log[x][1] = "setTimeout" \/ (log[x][1] = "fn" /\ log[x][2] = 2)

\* C33: a delay or flatMap after a join keeps the dispatch by origin.  In
\* A.merge(B.map(inc)).delay(t) (or .flatMap(h)) an event of A does not call
\* inc and its value v arrives at the delay; an event of B calls inc with its
\* value v and inc(v) arrives at the delay.
C33_DispatchSurvivesDeferral ==
    JoinThenDeferred =>
        \A t \in DOMAIN log :
            log[t][1] = "tick" /\ ProducerOf(log[t][2]) \in {1, 2} =>
                IF FromA(log[t])
                THEN /\ \A x \in DOMAIN log : StepOf(x) = t => ~Is(x, "fn", 101)
                     /\ ReachesSecond(t, log[t][3])
                ELSE /\ Is(t + 1, "fn", 101) /\ log[t + 1][3] = log[t][3]
                     /\ ReachesSecond(t, UserResult("inc", log[t][3], undefined))

----------------------------------------------------------------------------
\* State kept in a stream value, with several subscriptions.
\* The subscription of the run whose event began the step of place i.
OwnerAt(i) == OwnerOf(log[StepOf(i)][2])

TicksOf(k) == SelectSeq(Ticks, LAMBDA e : e[2] \in StartedBy(k))

\* C37: subscribing leaves a take(n) stream value as it was.  With
\* stream.take(n), n >= 1, on the base stream, every subscription, the first
\* and any later one, receives the first n values of its own run, and has
\* ended once n values have arrived.
C37_TakeCountsPerSubscription ==
    \A k \in Consumers :
        (Len(chain) = 1 /\ EndsWithTake /\ LastStage.n >= 1) =>
            LET n == LastStage.n
                mine == TicksOf(k)
            IN  /\ Vals(Events("onNext", k)) = Vals(SubSeq(mine, 1, Min(n, Len(mine))))
                /\ Len(mine) >= n => Ended(k)

\* The subscription on whose event the stream of producer instance c was spawned.
ChildOwner(c) == OwnerAt(CHOOSE i \in DOMAIN log : log[i][1] = "start" /\ log[i][3] = c)

\* C39: two subscriptions to one flatMap or flatMapLatest stream value keep
\* their spawned streams apart.  With the combinator alone on the base stream,
\* the producer of a spawned stream is stopped by a stop call only when the
\* call is of the subscription it was spawned for, and on a source event (an
\* eviction) only when the event is of that subscription's run.
C39_ChildSetsAreSeparate ==
    (Len(chain) = 1 /\ FlatStages = {1}) =>
        \A c \in Children(1) : \A x \in Ev("stop", c) :
            LET st == StepOf(x)
            IN  /\ log[st][1] = "unsubscribe" => log[st][2] = ChildOwner(c)
                /\ (log[st][1] = "tick" /\ log[st][2] \notin Children(1)) =>
                      OwnerOf(log[st][2]) = ChildOwner(c)

----------------------------------------------------------------------------
\* C35: onEnd is called at most once for a subscription, whatever events,
\* timers and stop calls follow one another, also when several delayed
\* sentinels are in flight, as in A.takeUntil(B.delay(t)) with three events of
\* B within t.
C35_OnEndAtMostOnce ==
    \A k \in Consumers : Cardinality(Ev("onEnd", k)) <= 1

\* C36: the sentinel is not handed to the functions of the caller: no call
\* of a function given to a combinator has the sentinel as an argument, and
\* stream.take(n).map(f), n >= 1, has ended once n values have arrived at take
\* (unless an error of f was thrown to the event source).
C36_SentinelSkipsUserFunctions ==
    /\ \A i \in DOMAIN log :
          log[i][1] = "fn" => log[i][3] # EXHAUST_SIGNAL /\ log[i][4] # EXHAUST_SIGNAL
    /\ \A k \in Consumers :
          (Len(chain) = 2 /\ chain[1].op = "take" /\ chain[1].n >= 1 /\ chain[2].op = "map"
             /\ Len(Events("take", chain[1].cell)) >= chain[1].n
             /\ Count("uncaught") = 0) => Ended(k)

----------------------------------------------------------------------------
\* C38: a producer that emits within its start.  When the stream of a
\* subscription has ended, also when the sentinel reached the terminal
\* handler before the producer had returned, the stop function of the
\* producer has been called exactly once (the consumer not having called it),
\* onEnd has been called when given, and the engine has thrown no TypeError.
C38_SynchronousEnd ==
    \A k \in Consumers :
        (Ended(k) /\ Ev("unsubscribe", k) = {}) =>
            /\ \A i \in StartedBy(k) : Cardinality(Ev("stop", i)) = 1
            /\ IsFunction(subs[k].onEnd) => Ev("onEnd", k) # {}
            /\ \A x \in DOMAIN log : log[x][1] = "uncaught" => log[x][3] # TypeErrorObject

----------------------------------------------------------------------------
\* C40: onError receives the errors of the functions given to the
\* combinators and no others: every call of onError follows at once the call
\* of a function that threw, with the error it threw.  An exception thrown by
\* the consumer's onNext is not delivered to onError.
C40_OnlyTransformErrorsReachOnError ==
    \A k \in Consumers : \A i \in Ev("onError", k) :
        /\ (i - 1) \in DOMAIN log
        /\ FnThrows(i - 1)
        /\ log[i][3] = ErrorObject
====
